---------------------------- MODULE Spec2Model ----------------------------
(***************************************************************************)
(* EpiStatKit: the 2x2-table effect measures, the chi-square test and the  *)
(* distribution approximation library, as a state machine of calls.        *)
(*                                                                         *)
(* A caller constructs a Table2x2 from supplied counts and then calls the  *)
(* calculators on it.  JavaScript numbers are modelled in two ways:        *)
(*   - the arithmetic on counts (+, -, *, /) as exact extended rationals   *)
(*     [n, d]: d > 0 is the fraction n/d in lowest terms, d = 0 is         *)
(*     Infinity (n = 1), -Infinity (n = -1) or NaN (n = 0), with the IEEE  *)
(*     rules for division by zero;                                         *)
(*   - the transcendental library (Math.sqrt, Math.log, Math.exp, ...) in  *)
(*     fixed point with Scale units per 1.                                 *)
(***************************************************************************)
EXTENDS Integers, Sequences, FiniteSets, TLC

VARIABLES table, given, op, args, result

vars == <<table, given, op, args, result>>

(***************************************************************************)
(* Bounds of the model.                                                    *)
(***************************************************************************)
MaxCell == 3

MaxDf == 6

MaxT == 7

MaxChi == 8

\* the largest number of events of a Poisson rate
MaxK == 5

\* the largest of the consecutive sample sizes
MaxN == 6

\* the largest of the consecutive numbers of trials
MaxTrials == 8

\* the largest mean (and mean difference) of the sample-size solvers
MaxMean == 2

\* the largest of the consecutive individually-randomized sample sizes
MaxNIndividual == 4

\* the largest of the consecutive group sizes of the power calculators
MaxGroup == 3

(***************************************************************************)
(* Extended rational arithmetic (JavaScript number arithmetic on counts).  *)
(***************************************************************************)
Sgn(n) == IF n > 0 THEN 1 ELSE IF n < 0 THEN -1 ELSE 0

IAbs(n) == IF n < 0 THEN -n ELSE n

RECURSIVE Gcd(_, _)
Gcd(m, n) == IF n = 0 THEN m ELSE Gcd(n, m % n)

Norm(n, d) ==
  IF d = 0 THEN [n |-> Sgn(n), d |-> 0]
  ELSE LET g == Gcd(IAbs(n), IAbs(d))
           s == IF d < 0 THEN -1 ELSE 1
       IN  [n |-> s * (n \div g), d |-> s * (d \div g)]

Q(n, d) == Norm(n, d)

NaN == [n |-> 0, d |-> 0]

Infinity == [n |-> 1, d |-> 0]

Zero == [n |-> 0, d |-> 1]

One == [n |-> 1, d |-> 1]

Half == [n |-> 1, d |-> 2]

IsFinite(x) == x.d # 0

IsNaN(x) == x.d = 0 /\ x.n = 0

QNeg(x) == [n |-> -x.n, d |-> x.d]

QAdd(x, y) ==
  IF x.d = 0 /\ y.d = 0 THEN (IF x.n = y.n THEN x ELSE NaN)
  ELSE IF x.d = 0 THEN x
  ELSE IF y.d = 0 THEN y
  ELSE LET g == Gcd(x.d, y.d)
       IN  Norm(x.n * (y.d \div g) + y.n * (x.d \div g), (x.d \div g) * y.d)

QSub(x, y) == QAdd(x, QNeg(y))

QMul(x, y) ==
  IF x.d = 0 \/ y.d = 0 THEN Norm(x.n * y.n, 0)
  ELSE LET g1 == Gcd(IAbs(x.n), y.d)
           g2 == Gcd(IAbs(y.n), x.d)
           h1 == IF g1 = 0 THEN 1 ELSE g1
           h2 == IF g2 = 0 THEN 1 ELSE g2
       IN  Norm((x.n \div h1) * (y.n \div h2), (x.d \div h2) * (y.d \div h1))

QRecip(x) == Norm(x.d, x.n)

QDiv(x, y) == QMul(x, QRecip(y))

QEq(x, y) == ~IsNaN(x) /\ ~IsNaN(y) /\ x = y

QLt(x, y) ==
  /\ ~IsNaN(x)
  /\ ~IsNaN(y)
  /\ IF x.d = 0 /\ y.d = 0 THEN x.n < y.n ELSE x.n * y.d < y.n * x.d

QLe(x, y) == QLt(x, y) \/ QEq(x, y)

QAbs(x) == [n |-> IAbs(x.n), d |-> x.d]

QCeil(x) == IF x.d = 0 THEN x ELSE [n |-> -((-x.n) \div x.d), d |-> 1]

QMax(x, y) == IF IsNaN(x) \/ IsNaN(y) THEN NaN ELSE IF QLt(x, y) THEN y ELSE x

QSq(x) == QMul(x, x)

(***************************************************************************)
(* Fixed-point arithmetic for the transcendental part of the library: a    *)
(* real x is the integer round(x * Scale).  Products and quotients are     *)
(* computed piecewise so that no intermediate value leaves 32 bits.        *)
(***************************************************************************)
Scale == 10 ^ 4

FromInt(k) == k * Scale

FromMicro(n) == (n + (10 ^ 6 \div Scale) \div 2) \div (10 ^ 6 \div Scale)

FromNano(n) == (n + (10 ^ 9 \div Scale) \div 2) \div (10 ^ 9 \div Scale)

FMulAbs(a, b) ==
  LET ai == a \div Scale
      af == a % Scale
      bi == b \div Scale
      bf == b % Scale
  IN  ai * bi * Scale + ai * bf + af * bi + (af * bf + Scale \div 2) \div Scale

FMul(a, b) == Sgn(a) * Sgn(b) * FMulAbs(IAbs(a), IAbs(b))

RECURSIVE FracPart(_, _, _)
FracPart(r, b, s) ==
  IF s = 1 THEN (IF 2 * r >= b THEN 1 ELSE 0)
  ELSE ((10 * r) \div b) * (s \div 10) + FracPart((10 * r) % b, b, s \div 10)

FDivAbs(a, b) == (a \div b) * Scale + FracPart(a % b, b, Scale)

FDiv(a, b) == Sgn(a) * Sgn(b) * FDivAbs(IAbs(a), IAbs(b))

FDivInt(a, k) == Sgn(a) * Sgn(k) * ((2 * IAbs(a) + IAbs(k)) \div (2 * IAbs(k)))

FMin(a, b) == IF a < b THEN a ELSE b

FMax(a, b) == IF a > b THEN a ELSE b

QToFx(x) == Sgn(x.n) * FDivAbs(IAbs(x.n), x.d)

(***************************************************************************)
(* Math.sqrt, Math.log, Math.exp, Math.atan, Math.sin, Math.cos and        *)
(* Math.pow(x, 1/3) on fixed-point numbers.                                *)
(***************************************************************************)
RECURSIVE ISqrtIter(_, _)
ISqrtIter(n, x) ==
  LET y == (x + n \div x) \div 2
  IN  IF y >= x THEN x ELSE ISqrtIter(n, y)

ISqrt(n) == IF n = 0 THEN 0 ELSE ISqrtIter(n, n)

RECURSIVE FSqrt(_)
FSqrt(a) ==
  IF a < 20 * Scale THEN
    LET n == a * Scale
        r == ISqrt(n)
    IN  IF (r + 1) * (r + 1) - n <= n - r * r THEN r + 1 ELSE r
  ELSE 10 * FSqrt((a + 50) \div 100)

PiFx == FromMicro(3141593)

HalfPiFx == FromMicro(1570796)

Ln2Micro == 693147

\* sum_{i >= 0} u^(2i+1) / (2i+1), the series of atanh(u), |u| <= 1/3
RECURSIVE AtanhSeries(_, _, _, _)
AtanhSeries(u2, pw, k, acc) ==
  IF pw = 0 \/ k > 15 THEN acc
  ELSE AtanhSeries(u2, FMul(pw, u2), k + 2, acc + FDivInt(pw, k))

RECURSIVE FLnReduce(_, _)
FLnReduce(a, k) ==
  IF a >= 2 * Scale THEN FLnReduce((a + 1) \div 2, k + 1)
  ELSE IF a < Scale THEN FLnReduce(2 * a, k - 1)
  ELSE [m |-> a, k |-> k]

\* Math.log(a) for a > 0: a = m * 2^k with 1 <= m < 2, ln m = 2 atanh((m-1)/(m+1))
FLn(a) ==
  LET red == FLnReduce(a, 0)
      u   == FDiv(red.m - Scale, red.m + Scale)
  IN  2 * AtanhSeries(FMul(u, u), u, 1, 0) + FromMicro(red.k * Ln2Micro)

\* sum_{i >= 0} r^i / i!
RECURSIVE ExpSeries(_, _, _, _)
ExpSeries(r, term, k, acc) ==
  IF term = 0 \/ k > 12 THEN acc
  ELSE ExpSeries(r, FDivInt(FMul(term, r), k), k + 1, acc + term)

RECURSIVE Pow2(_)
Pow2(k) == IF k = 0 THEN 1 ELSE 2 * Pow2(k - 1)

\* Math.exp(a): a = k ln 2 + r with 0 <= r < ln 2, exp(a) = 2^k exp(r)
FExp(a) ==
  LET ln2 == FromMicro(Ln2Micro)
      k   == a \div ln2
      r   == a - FromMicro(k * Ln2Micro)
      e   == ExpSeries(r, Scale, 1, 0)
  IN  IF k >= 0 THEN e * Pow2(k)
      ELSE IF k < -29 THEN 0
      ELSE FDivInt(e, Pow2(-k))

\* sum_{i >= 0} (-1)^i x^(2i+1) / (2i+1), the series of atan(x), |x| <= 1/2
RECURSIVE AtanSeries(_, _, _, _)
AtanSeries(x2, pw, k, acc) ==
  IF pw = 0 \/ k > 21 THEN acc
  ELSE AtanSeries(x2, -FMul(pw, x2), k + 2, acc + FDivInt(pw, k))

AtanUnit(x) ==
  LET h == FDiv(x, Scale + FSqrt(Scale + FMul(x, x)))
  IN  2 * AtanSeries(FMul(h, h), h, 1, 0)

\* Math.atan(x) for x >= 0
FAtan(x) == IF x <= Scale THEN AtanUnit(x) ELSE HalfPiFx - AtanUnit(FDiv(Scale, x))

\* sum_{i >= 0} (-1)^i x^(k0+2i) / (k0+2i)!, from the term x^k0/k0! on
RECURSIVE TrigSeries(_, _, _, _)
TrigSeries(x2, term, k, acc) ==
  IF term = 0 \/ k > 20 THEN acc
  ELSE TrigSeries(x2, -FDivInt(FMul(term, x2), (k + 1) * (k + 2)), k + 2, acc + term)

\* Math.sin(x), Math.cos(x) for 0 <= x <= pi/2
FSin(x) == FMin(Scale, FMax(0, TrigSeries(FMul(x, x), x, 1, 0)))

FCos(x) == FMin(Scale, FMax(0, TrigSeries(FMul(x, x), Scale, 0, 0)))

RECURSIVE CbrtSearch(_, _, _)
CbrtSearch(a, lo, hi) ==
  IF hi - lo <= 1 THEN
    (IF a - FMul(FMul(lo, lo), lo) <= FMul(FMul(hi, hi), hi) - a THEN lo ELSE hi)
  ELSE LET mid == (lo + hi) \div 2
       IN  IF FMul(FMul(mid, mid), mid) <= a THEN CbrtSearch(a, mid, hi)
           ELSE CbrtSearch(a, lo, mid)

\* Math.pow(a, 1/3) for a >= 0
FCbrt(a) == IF a = 0 THEN 0 ELSE CbrtSearch(a, 0, FMax(Scale, a))

(***************************************************************************)
(* The Math functions on JavaScript numbers: the IEEE special cases, and   *)
(* otherwise the fixed-point value as a fraction over Scale.               *)
(***************************************************************************)
FxQ(v) == Norm(v, Scale)

Rnd(x) == IF x.d = 0 THEN x ELSE FxQ(QToFx(x))

MathSqrt(x) ==
  IF IsNaN(x) \/ x.n < 0 THEN NaN
  ELSE IF x.d = 0 THEN Infinity
  ELSE FxQ(FSqrt(QToFx(x)))

MathLog(x) ==
  IF IsNaN(x) \/ x.n < 0 THEN NaN
  ELSE IF x.d = 0 THEN Infinity
  ELSE IF QToFx(x) = 0 THEN QNeg(Infinity)
  ELSE FxQ(FLn(QToFx(x)))

MathExp(x) ==
  IF IsNaN(x) THEN NaN
  ELSE IF x.d = 0 THEN (IF x.n > 0 THEN Infinity ELSE Zero)
  ELSE FxQ(FExp(QToFx(x)))

(***************************************************************************)
(* confidenceIntervals/utils: the distribution approximation library.      *)
(* Probabilities, confidence levels and statistics are fixed-point         *)
(* numbers; degrees of freedom are integers.                               *)
(***************************************************************************)
erf(x) ==
  LET a1   == FromNano(254829592)
      a2   == -FromNano(284496736)
      a3   == FromNano(1421413741)
      a4   == -FromNano(1453152027)
      a5   == FromNano(1061405429)
      p    == FromMicro(327591)
      sign == IF x < 0 THEN -1 ELSE 1
      absX == IAbs(x)
      t    == FDiv(Scale, Scale + FMul(p, absX))
      poly == FMul(FMul(FMul(FMul(FMul(a5, t) + a4, t) + a3, t) + a2, t) + a1, t)
      y    == Scale - FMul(poly, FExp(-FMul(absX, absX)))
  IN  sign * y

getNormalCDF(z) == FDivInt(Scale + erf(FDiv(z, FSqrt(2 * Scale))), 2)

getZCritical(confidence) ==
  LET alpha == Scale - FDivInt(confidence, 100)
      p     == Scale - FDivInt(alpha, 2)
      t     == FSqrt(-2 * FLn(Scale - p))
      c0    == FromMicro(2515517)
      c1    == FromMicro(802853)
      c2    == FromMicro(10328)
      d0    == FromMicro(1432788)
      d1    == FromMicro(189269)
      d2    == FromMicro(1308)
      num   == c0 + FMul(c1, t) + FMul(FMul(c2, t), t)
      den   == Scale + FMul(d0, t) + FMul(FMul(d1, t), t) + FMul(FMul(FMul(d2, t), t), t)
  IN  t - FDiv(num, den)

\* the Normal quantile already at df = 500
getTCriticalFrom500(confidence, df) ==
  IF df <= 0 THEN 0
  ELSE LET z == getZCritical(confidence)
       IN  IF df >= 500 THEN z
           ELSE LET z2    == FMul(z, z)
                    z3    == FMul(z2, z)
                    z5    == FMul(z2, z3)
                    term1 == FDivInt(z3 + z, 4 * df)
                    term2 == FDivInt(5 * z5 + 16 * z3 + 3 * z, 96 * df * df)
                    term3 == FDivInt(FDivInt(3 * FMul(z5, z2) + 19 * z5 + 17 * z3 - 15 * z,
                                             384 * df), df * df)
                IN  z + term1 + term2 + term3

getTCritical(confidence, df) ==
  IF df <= 0 THEN 0
  ELSE LET z == getZCritical(confidence)
       IN  IF df > 500 THEN z
           ELSE LET z2    == FMul(z, z)
                    z3    == FMul(z2, z)
                    z5    == FMul(z2, z3)
                    term1 == FDivInt(z3 + z, 4 * df)
                    term2 == FDivInt(5 * z5 + 16 * z3 + 3 * z, 96 * df * df)
                    term3 == FDivInt(FDivInt(3 * FMul(z5, z2) + 19 * z5 + 17 * z3 - 15 * z,
                                             384 * df), df * df)
                IN  z + term1 + term2 + term3

\* the loop left as soon as a term vanishes: iteration to convergence
RECURSIVE tLoopToConvergence(_, _, _, _, _, _)
tLoopToConvergence(i, df, cos, term, poly, iters) ==
  IF i > df - 2 \/ term = 0 THEN [poly |-> poly, iters |-> iters]
  ELSE LET term2 == FMul(term, FMul(FMul(FDiv(FromInt(i - 1), FromInt(i)), cos), cos))
       IN  tLoopToConvergence(i + 2, df, cos, term2, poly + term2, iters + 1)

\* for (let i = i0; i <= df - 2; i += 2) { term *= (i - 1) / i * cos * cos; poly += term; }
RECURSIVE tLoop(_, _, _, _, _, _)
tLoop(i, df, cos, term, poly, iters) ==
  IF i > df - 2 THEN [poly |-> poly, iters |-> iters]
  ELSE LET term2 == FMul(term, FMul(FMul(FDiv(FromInt(i - 1), FromInt(i)), cos), cos))
       IN  tLoop(i + 2, df, cos, term2, poly + term2, iters + 1)

\* the two-sided p of the trigonometric recursion (df <= 100), with the
\* number of loop iterations it took
tTrigP(absT, df) ==
  LET angle == FAtan(FDiv(absT, FSqrt(FromInt(df))))
      sin   == FSin(angle)
      cos   == FCos(angle)
      twoOverPi == FDiv(2 * Scale, PiFx)
      loop  == IF df = 1 THEN [poly |-> 0, iters |-> 0]
               ELSE IF df % 2 = 1 THEN tLoop(3, df, cos, sin, sin, 0)
               ELSE tLoop(2, df, cos, sin, sin, 0)
  IN  [p |-> IF df = 1 THEN Scale - FMul(twoOverPi, angle)
             ELSE IF df % 2 = 1
               THEN Scale - FMul(twoOverPi, angle + FMul(loop.poly, cos))
             ELSE Scale - FMul(loop.poly, cos),
       iters |-> loop.iters]

\* iters is the number of loop iterations the call executed
getTPValue(t, df) ==
  LET absT == IAbs(t)
  IN  IF df > 100 THEN
        LET pZ       == getNormalCDF(absT)
            twoSided == 2 * (Scale - pZ)
            lower    == IF t < 0 THEN pZ ELSE Scale - pZ
        IN  [twoSided |-> twoSided, lower |-> lower, upper |-> Scale - lower, iters |-> 0]
      ELSE
        LET tp == tTrigP(absT, df)
            p  == tp.p
        IN  [twoSided |-> FMax(0, FMin(Scale, p)),
             lower    |-> IF t < 0 THEN Scale - FDivInt(p, 2) ELSE FDivInt(p, 2),
             upper    |-> IF t > 0 THEN Scale - FDivInt(p, 2) ELSE FDivInt(p, 2),
             iters    |-> tp.iters]

\* the sentinel for chi2 <= 0 returned as 0 instead of 1
getChiSqPValueZeroSentinel(chi2, df) ==
  IF chi2 <= 0 THEN 0
  ELSE LET z     == FCbrt(FDivInt(chi2, df)) - (Scale - FDivInt(2 * Scale, 9 * df))
           denom == FSqrt(FDivInt(2 * Scale, 9 * df))
           zStat == FDiv(z, denom)
       IN  Scale - getNormalCDF(zStat)

getChiSqPValue(chi2, df) ==
  IF chi2 <= 0 THEN Scale
  ELSE LET z     == FCbrt(FDivInt(chi2, df)) - (Scale - FDivInt(2 * Scale, 9 * df))
           denom == FSqrt(FDivInt(2 * Scale, 9 * df))
           zStat == FDiv(z, denom)
       IN  Scale - getNormalCDF(zStat)

getChiSqCritical(p, df) ==
  IF df <= 0 THEN 0
  ELSE LET z     == getZCritical(FMul(Scale - p, FromInt(100)))
           inner == Scale - FDivInt(2 * Scale, 9 * df)
                      + FMul(z, FSqrt(FDivInt(2 * Scale, 9 * df)))
       IN  df * FMul(FMul(inner, inner), inner)

\* Math.exp whose result may leave the fixed-point grid: a large result is
\* the reciprocal of exp(-a); a result below one unit of the grid is one unit
ExpWide(a) ==
  IF a > FromInt(4) THEN QRecip(FxQ(FMax(1, FExp(-a))))
  ELSE FxQ(FMax(1, FExp(a)))

lambda(z) == FDivInt(FMul(z, z) - 3 * Scale, 6)

getFCritical(p, d1, d2) ==
  LET z == getZCritical(FMul(p, FromInt(100)))
      h == FDiv(2 * Scale, FDivInt(Scale, d1) + FDivInt(Scale, d2))
      g == FDivInt(FromInt(d2 - d1), d1 * d2)
      w == FDiv(FMul(z, FSqrt(h + lambda(z))), h) - FMul(g, FMul(z, z) + 2 * Scale)
  IN  ExpWide(2 * w)

(***************************************************************************)
(* Number.prototype.toFixed(k): the decimal text of a number.  A finite    *)
(* number is rounded to k decimals (ties away from zero), a non-finite one *)
(* prints as "NaN", "Infinity" or "-Infinity".                             *)
(***************************************************************************)
Pow10(k) == 10 ^ k

toFixed(x, k) ==
  IF IsNaN(x) THEN [text |-> "NaN", scaled |-> 0, digits |-> k]
  ELSE IF x.d = 0
    THEN [text |-> IF x.n > 0 THEN "Infinity" ELSE "-Infinity", scaled |-> 0, digits |-> k]
  ELSE [text |-> "num",
        scaled |-> Sgn(x.n) * ((IAbs(x.n) \div x.d) * Pow10(k)
                               + FracPart(IAbs(x.n) % x.d, x.d, Pow10(k))),
        digits |-> k]

Text(s) == [text |-> s, scaled |-> 0, digits |-> 0]

(***************************************************************************)
(* Table2x2 and the inputs the caller supplies.                            *)
(***************************************************************************)
ScenarioA == [a |-> Q(20, 1), b |-> Q(80, 1), c |-> Q(10, 1), d |-> Q(90, 1)]

Counts == {Q(k, 1) : k \in 0..MaxCell}

Table2x2 == [a : Counts, b : Counts, c : Counts, d : Counts] \cup {ScenarioA}

Confs == {FromInt(80), FromInt(90), FromInt(95), FromInt(99), FromMicro(99900000)}

Dfs == (-1 .. MaxDf) \cup {99, 100, 101, 150, 500, 501, 1000}

Ts == {k * (Scale \div 2) : k \in -MaxT .. MaxT}

Args(conf, yates, x, df) == [conf |-> conf, yates |-> yates, x |-> x, df |-> df]

NoArgs == Args(FromInt(95), FALSE, 0, 0)

NoResult == [kind |-> "none"]

(***************************************************************************)
(* epidemiology/utils: the shared 2x2 primitives.                          *)
(***************************************************************************)
\* the zero test that forgets cell d
hasZeroNoD(t) == t.a = Zero \/ t.b = Zero \/ t.c = Zero

hasZero(t) == t.a = Zero \/ t.b = Zero \/ t.c = Zero \/ t.d = Zero

\* the correction applied to every table, zero cell or not
applyContinuityCorrectionAlways(t) ==
  [a |-> QAdd(t.a, Half), b |-> QAdd(t.b, Half),
   c |-> QAdd(t.c, Half), d |-> QAdd(t.d, Half)]

\* the correction applied to the exposed row only
applyContinuityCorrectionExposedRow(t) ==
  IF ~hasZero(t) THEN t
  ELSE [a |-> QAdd(t.a, Half), b |-> QAdd(t.b, Half), c |-> t.c, d |-> t.d]

applyContinuityCorrection(t) ==
  IF ~hasZero(t) THEN t
  ELSE [a |-> QAdd(t.a, Half), b |-> QAdd(t.b, Half),
        c |-> QAdd(t.c, Half), d |-> QAdd(t.d, Half)]

computeRR(tbl, conf) ==
  LET t     == applyContinuityCorrection(tbl)
      r1    == QDiv(t.a, QAdd(t.a, t.b))
      r2    == QDiv(t.c, QAdd(t.c, t.d))
      rr    == QDiv(r1, r2)
      seLog == MathSqrt(QAdd(QSub(QRecip(t.a), QRecip(QAdd(t.a, t.b))),
                             QSub(QRecip(t.c), QRecip(QAdd(t.c, t.d)))))
      z     == FxQ(getZCritical(conf))
  IN  [value |-> rr,
       lower |-> MathExp(Rnd(QSub(MathLog(rr), Rnd(QMul(z, seLog))))),
       upper |-> MathExp(Rnd(QAdd(MathLog(rr), Rnd(QMul(z, seLog)))))]

computeOR(tbl, conf) ==
  LET t     == applyContinuityCorrection(tbl)
      or    == QDiv(QMul(t.a, t.d), QMul(t.b, t.c))
      seLog == MathSqrt(QAdd(QAdd(QAdd(QRecip(t.a), QRecip(t.b)), QRecip(t.c)), QRecip(t.d)))
      z     == FxQ(getZCritical(conf))
  IN  [value |-> or,
       lower |-> MathExp(Rnd(QSub(MathLog(or), Rnd(QMul(z, seLog))))),
       upper |-> MathExp(Rnd(QAdd(MathLog(or), Rnd(QMul(z, seLog)))))]

\* the risk difference computed from the continuity-corrected table
computeRDCorrected(tbl, conf) ==
  LET t  == applyContinuityCorrection(tbl)
      r1 == QDiv(t.a, QAdd(t.a, t.b))
      r2 == QDiv(t.c, QAdd(t.c, t.d))
      rd == QSub(r1, r2)
      se == MathSqrt(QAdd(QDiv(QMul(r1, QSub(One, r1)), QAdd(t.a, t.b)),
                          QDiv(QMul(r2, QSub(One, r2)), QAdd(t.c, t.d))))
      z  == FxQ(getZCritical(conf))
  IN  [value |-> rd,
       lower |-> Rnd(QSub(rd, Rnd(QMul(z, se)))),
       upper |-> Rnd(QAdd(rd, Rnd(QMul(z, se)))),
       nnt   |-> IF QEq(rd, Zero) THEN Infinity ELSE QCeil(QAbs(QRecip(rd)))]

\* the number needed to treat rounded to the nearest integer instead of up
computeRDRound(tbl, conf) ==
  LET r1 == QDiv(tbl.a, QAdd(tbl.a, tbl.b))
      r2 == QDiv(tbl.c, QAdd(tbl.c, tbl.d))
      rd == QSub(r1, r2)
      se == MathSqrt(QAdd(QDiv(QMul(r1, QSub(One, r1)), QAdd(tbl.a, tbl.b)),
                          QDiv(QMul(r2, QSub(One, r2)), QAdd(tbl.c, tbl.d))))
      z  == FxQ(getZCritical(conf))
  IN  [value |-> rd,
       lower |-> Rnd(QSub(rd, Rnd(QMul(z, se)))),
       upper |-> Rnd(QAdd(rd, Rnd(QMul(z, se)))),
       nnt   |-> IF QEq(rd, Zero) THEN Infinity
                 ELSE QCeil(QSub(QAbs(QRecip(rd)), Half))]

computeRD(tbl, conf) ==
  LET r1 == QDiv(tbl.a, QAdd(tbl.a, tbl.b))
      r2 == QDiv(tbl.c, QAdd(tbl.c, tbl.d))
      rd == QSub(r1, r2)
      se == MathSqrt(QAdd(QDiv(QMul(r1, QSub(One, r1)), QAdd(tbl.a, tbl.b)),
                          QDiv(QMul(r2, QSub(One, r2)), QAdd(tbl.c, tbl.d))))
      z  == FxQ(getZCritical(conf))
  IN  [value |-> rd,
       lower |-> Rnd(QSub(rd, Rnd(QMul(z, se)))),
       upper |-> Rnd(QAdd(rd, Rnd(QMul(z, se)))),
       nnt   |-> IF QEq(rd, Zero) THEN Infinity ELSE QCeil(QAbs(QRecip(rd)))]

formatPercent(val) == toFixed(QMul(val, Q(100, 1)), 2)

formatCI(low, high, precision) ==
  [l |-> IF IsFinite(low) THEN toFixed(low, precision) ELSE Text("-inf"),
   h |-> IF IsFinite(high) THEN toFixed(high, precision) ELSE Text("inf")]

DefaultConf == FromInt(95)

(***************************************************************************)
(* The calculators' compute functions.  A result is the record the         *)
(* presentation layer receives: the result rows (label, displayed value)   *)
(* and the values interpolated into the interpretation text.  The fields   *)
(* res, chi2, pValue, orPoint .. rrUpper expose the compute function's     *)
(* local constants of the same name.                                       *)
(***************************************************************************)
epiMeasuresCompute(tbl) ==
  LET a  == tbl.a
      b  == tbl.b
      c  == tbl.c
      d  == tbl.d
      n1 == QAdd(a, b)
      n2 == QAdd(c, d)
      r1 == QDiv(a, n1)
      r2 == QDiv(c, n2)
      rr == QDiv(r1, r2)
      or == QDiv(QMul(a, d), QMul(b, c))
  IN  [results |-> << [label |-> "Relative Risk (RR)", value |-> toFixed(rr, 3)],
                      [label |-> "Odds Ratio (OR)", value |-> toFixed(or, 3)] >>,
       interpretation |-> << toFixed(rr, 2), toFixed(or, 2),
                             Text(IF QLt(One, rr) THEN "positive" ELSE "negative") >>]

riskRatioCalcCompute(tbl) ==
  LET res == computeRR(tbl, DefaultConf)
  IN  [results |-> << [label |-> "Risk Ratio (RR)", value |-> toFixed(res.value, 3)],
                      [label |-> "95% CI (Taylor Series)",
                       value |-> formatCI(res.lower, res.upper, 3)],
                      [label |-> "Risk in Exposed",
                       value |-> formatPercent(QDiv(tbl.a, QAdd(tbl.a, tbl.b)))],
                      [label |-> "Risk in Unexposed",
                       value |-> formatPercent(QDiv(tbl.c, QAdd(tbl.c, tbl.d)))] >>,
       interpretation |-> << toFixed(res.value, 2),
                             Text(IF QLt(One, res.value) THEN "higher" ELSE "lower") >>,
       res |-> res]

oddsRatioCalcCompute(tbl) ==
  LET res == computeOR(tbl, DefaultConf)
  IN  [results |-> << [label |-> "Odds Ratio (OR)", value |-> toFixed(res.value, 3)],
                      [label |-> "95% CI (Woolf)",
                       value |-> formatCI(res.lower, res.upper, 3)],
                      [label |-> "Odds in Exposed", value |-> toFixed(QDiv(tbl.a, tbl.b), 3)],
                      [label |-> "Odds in Unexposed", value |-> toFixed(QDiv(tbl.c, tbl.d), 3)] >>,
       interpretation |-> << toFixed(res.value, 2),
                             Text(IF QLt(One, res.value) THEN "greater" ELSE "less") >>,
       res |-> res]

riskDiffCalcCompute(tbl) ==
  LET res == computeRD(tbl, DefaultConf)
  IN  [results |-> << [label |-> "Risk Difference (RD)", value |-> toFixed(res.value, 4)],
                      [label |-> "RD Percentage", value |-> formatPercent(res.value)],
                      [label |-> IF QLt(res.value, Zero) THEN "Number Needed to Treat (NNT)"
                                 ELSE "Number Needed to Harm (NNH)",
                       value |-> IF IsFinite(res.nnt) THEN toFixed(res.nnt, 0)
                                 ELSE Text("N/A")] >>,
       interpretation |-> << formatPercent(res.value), toFixed(res.nnt, 0) >>,
       res |-> res]

formatP(p) == IF p < FromMicro(1000) THEN Text("< 0.001") ELSE toFixed(FxQ(p), 4)

\* the zero-total test on the two row totals only
chiSquareComputeRowsOnly(tbl, yates) ==
  LET a    == tbl.a
      b    == tbl.b
      c    == tbl.c
      d    == tbl.d
      n    == QAdd(QAdd(QAdd(a, b), c), d)
      row1 == QAdd(a, b)
      row2 == QAdd(c, d)
      col1 == QAdd(a, c)
      col2 == QAdd(b, d)
  IN  IF row1 = Zero \/ row2 = Zero
      THEN [results |-> << >>,
            interpretation |-> << Text("Table contains a row or column with zero totals.") >>]
      ELSE
        LET numerator    == QAbs(QSub(QMul(a, d), QMul(b, c)))
            correctedNum == IF yates THEN QMax(Zero, QSub(numerator, QDiv(n, Q(2, 1))))
                            ELSE numerator
            chi2         == QDiv(QMul(n, QSq(correctedNum)),
                                 QMul(QMul(QMul(row1, row2), col1), col2))
        IN  [results |-> << [label |-> "Chi-Square", value |-> toFixed(chi2, 4)] >>,
             interpretation |-> << toFixed(chi2, 3) >>,
             chi2 |-> chi2,
             pValue |-> 0]

\* the Yates-corrected numerator |ad - bc| - n/2 without the clamp at 0
chiSquareComputeNoClamp(tbl, yates) ==
  LET a    == tbl.a
      b    == tbl.b
      c    == tbl.c
      d    == tbl.d
      n    == QAdd(QAdd(QAdd(a, b), c), d)
      row1 == QAdd(a, b)
      row2 == QAdd(c, d)
      col1 == QAdd(a, c)
      col2 == QAdd(b, d)
  IN  IF row1 = Zero \/ row2 = Zero \/ col1 = Zero \/ col2 = Zero
      THEN [results |-> << >>,
            interpretation |-> << Text("Table contains a row or column with zero totals.") >>]
      ELSE
        LET numerator    == QAbs(QSub(QMul(a, d), QMul(b, c)))
            correctedNum == IF yates THEN QSub(numerator, QDiv(n, Q(2, 1))) ELSE numerator
            chi2         == QDiv(QMul(n, QSq(correctedNum)),
                                 QMul(QMul(QMul(row1, row2), col1), col2))
            pValue       == getChiSqPValue(QToFx(chi2), 1)
        IN  [results |-> << [label |-> "Chi-Square", value |-> toFixed(chi2, 4)],
                            [label |-> "p-value", value |-> formatP(pValue)] >>,
             interpretation |-> << toFixed(chi2, 3), formatP(pValue) >>,
             chi2 |-> chi2,
             pValue |-> pValue]

chiSquareCompute(tbl, yates) ==
  LET a    == tbl.a
      b    == tbl.b
      c    == tbl.c
      d    == tbl.d
      n    == QAdd(QAdd(QAdd(a, b), c), d)
      row1 == QAdd(a, b)
      row2 == QAdd(c, d)
      col1 == QAdd(a, c)
      col2 == QAdd(b, d)
  IN  IF row1 = Zero \/ row2 = Zero \/ col1 = Zero \/ col2 = Zero
      THEN [results |-> << >>,
            interpretation |-> << Text("Table contains a row or column with zero totals.") >>]
      ELSE
        LET numerator    == QAbs(QSub(QMul(a, d), QMul(b, c)))
            correctedNum == IF yates THEN QMax(Zero, QSub(numerator, QDiv(n, Q(2, 1))))
                            ELSE numerator
            chi2         == QDiv(QMul(n, QSq(correctedNum)),
                                 QMul(QMul(QMul(row1, row2), col1), col2))
            pValue       == getChiSqPValue(QToFx(chi2), 1)
        IN  [results |-> << [label |-> "Chi-Square", value |-> toFixed(chi2, 4)],
                            [label |-> "p-value", value |-> formatP(pValue)],
                            [label |-> "Degrees of Freedom", value |-> toFixed(One, 0)],
                            [label |-> "Correction",
                             value |-> Text(IF yates THEN "Yates Correction applied"
                                            ELSE "None")] >>,
             interpretation |-> << toFixed(chi2, 3), formatP(pValue),
                                   Text(IF pValue < FromMicro(50000)
                                        THEN "A statistically significant association exists."
                                        ELSE "No statistically significant association was found.") >>,
             chi2 |-> chi2,
             pValue |-> pValue]

\* x || 0
OrZero(x) == IF IsNaN(x) \/ x = Zero THEN Zero ELSE x

ciEpiCompute(tbl, conf) ==
  LET a       == tbl.a
      b       == tbl.b
      c       == tbl.c
      d       == tbl.d
      zCrit   == FxQ(getZCritical(conf))
      ac      == QAdd(a, Half)
      bc      == QAdd(b, Half)
      cc      == QAdd(c, Half)
      dc      == QAdd(d, Half)
      orPoint == OrZero(QDiv(QMul(a, d), QMul(b, c)))
      seLogOr == MathSqrt(QAdd(QAdd(QAdd(QRecip(ac), QRecip(bc)), QRecip(cc)), QRecip(dc)))
      logOrC  == MathLog(QDiv(QMul(ac, dc), QMul(bc, cc)))
      orLower == MathExp(Rnd(QSub(logOrC, Rnd(QMul(zCrit, seLogOr)))))
      orUpper == MathExp(Rnd(QAdd(logOrC, Rnd(QMul(zCrit, seLogOr)))))
      r1      == OrZero(QDiv(a, QAdd(a, b)))
      r2      == OrZero(QDiv(c, QAdd(c, d)))
      rrPoint == IF r2 = Zero THEN Infinity ELSE QDiv(r1, r2)
      seLogRr == MathSqrt(QAdd(QSub(QRecip(ac), QRecip(QAdd(ac, bc))),
                               QSub(QRecip(cc), QRecip(QAdd(cc, dc)))))
      rrLower == IF rrPoint = Zero THEN Zero
                 ELSE MathExp(Rnd(QSub(MathLog(rrPoint), Rnd(QMul(zCrit, seLogRr)))))
      rrUpper == IF rrPoint = Infinity THEN Infinity
                 ELSE MathExp(Rnd(QAdd(MathLog(rrPoint), Rnd(QMul(zCrit, seLogRr)))))
      rdPoint == QSub(r1, r2)
      seRd    == MathSqrt(QAdd(QDiv(QMul(r1, QSub(One, r1)), QAdd(QAdd(a, b), Half)),
                               QDiv(QMul(r2, QSub(One, r2)), QAdd(QAdd(c, d), Half))))
      rdLower == Rnd(QSub(rdPoint, Rnd(QMul(zCrit, seRd))))
      rdUpper == Rnd(QAdd(rdPoint, Rnd(QMul(zCrit, seRd))))
  IN  [results |-> << [label |-> "Odds Ratio (OR)",
                       value |-> IF IsFinite(orPoint) THEN toFixed(orPoint, 3) ELSE Text("inf")],
                      [label |-> "OR 95% CI (Woolf)", value |-> formatCI(orLower, orUpper, 3)],
                      [label |-> "Relative Risk (RR)",
                       value |-> IF IsFinite(rrPoint) THEN toFixed(rrPoint, 3) ELSE Text("inf")],
                      [label |-> "RR 95% CI (Taylor)", value |-> formatCI(rrLower, rrUpper, 3)],
                      [label |-> "Risk Difference (RD)", value |-> toFixed(rdPoint, 4)],
                      [label |-> "RD 95% CI", value |-> formatCI(rdLower, rdUpper, 4)] >>,
       interpretation |-> << toFixed(orPoint, 2), toFixed(rrPoint, 2) >>,
       orPoint |-> orPoint, orLower |-> orLower, orUpper |-> orUpper,
       rrPoint |-> rrPoint, rrLower |-> rrLower, rrUpper |-> rrUpper]

(***************************************************************************)
(* confidenceIntervals/ciRatePoisson and ciVariance: the interval          *)
(* estimators built on getChiSqCritical.  k, T and n are integers, sd is a *)
(* rational; rate, s2 and the bounds are kept as rationals, the chi-square *)
(* critical values are the library's fixed-point results.                  *)
(***************************************************************************)
Cube(x) == FMul(FMul(x, x), x)

ciRatePoissonCompute(k, T, conf, precision) ==
  LET alpha      == Scale - FDivInt(conf, 100)
      rate       == Q(k, T)
      exactLower == IF k = 0 THEN Zero
                    ELSE QDiv(FxQ(getChiSqCritical(FDivInt(alpha, 2), 2 * k)), Q(2 * T, 1))
      exactUpper == QDiv(FxQ(getChiSqCritical(Scale - FDivInt(alpha, 2), 2 * (k + 1))),
                         Q(2 * T, 1))
      zCrit      == getZCritical(conf)
      kHalf      == k * Scale + Scale \div 2
      byarTerm   == FMul(FDivInt(zCrit, 3), FSqrt(FDiv(Scale, kHalf)))
      byarBase   == Scale - FDiv(Scale, 9 * kHalf)
      byarLower  == QDiv(FxQ(FMul(kHalf, Cube(byarBase - byarTerm))), Q(T, 1))
      byarUpper  == QDiv(FxQ(FMul(kHalf, Cube(byarBase + byarTerm))), Q(T, 1))
  IN  [results |-> << [label |-> "Observed Rate", value |-> toFixed(rate, precision)],
                      [label |-> "Exact Poisson CI",
                       value |-> formatCI(exactLower, exactUpper, precision)],
                      [label |-> "Byar's Approximation CI",
                       value |-> formatCI(byarLower, byarUpper, precision)],
                      [label |-> "Events (k)", value |-> k],
                      [label |-> "Person-Time (T)", value |-> T] >>,
       interpretation |-> << toFixed(rate, precision) >>,
       rate |-> rate, exactLower |-> exactLower, exactUpper |-> exactUpper,
       byarLower |-> byarLower, byarUpper |-> byarUpper]

ciVarianceCompute(sd, n, conf, precision) ==
  LET df       == n - 1
      alpha    == Scale - FDivInt(conf, 100)
      s2       == QMul(sd, sd)
      chiLower == getChiSqCritical(Scale - FDivInt(alpha, 2), df)
      chiUpper == getChiSqCritical(FDivInt(alpha, 2), df)
      varLower == QDiv(QMul(Q(df, 1), s2), FxQ(chiUpper))
      varUpper == QDiv(QMul(Q(df, 1), s2), FxQ(chiLower))
      sdLower  == MathSqrt(varLower)
      sdUpper  == MathSqrt(varUpper)
  IN  [results |-> << [label |-> "Sample Variance", value |-> toFixed(s2, precision)],
                      [label |-> "Degrees of Freedom (df)", value |-> df],
                      [label |-> "Chi-Square Critical (Lower)",
                       value |-> toFixed(FxQ(chiLower), precision)],
                      [label |-> "Chi-Square Critical (Upper)",
                       value |-> toFixed(FxQ(chiUpper), precision)],
                      [label |-> "CI for Variance",
                       value |-> formatCI(varLower, varUpper, precision)],
                      [label |-> "CI for Std. Deviation",
                       value |-> formatCI(sdLower, sdUpper, precision)] >>,
       interpretation |-> << toFixed(sdLower, precision), toFixed(sdUpper, precision) >>,
       s2 |-> s2, varLower |-> varLower, varUpper |-> varUpper,
       sdLower |-> sdLower, sdUpper |-> sdUpper]

(***************************************************************************)
(* calculators/confidenceIntervals/ciProportion: Wald, Wilson, Wilson with *)
(* continuity correction and Clopper-Pearson intervals of x successes in n *)
(* trials.  A bound is a rational; a product with the fixed-point zCrit    *)
(* and the Wilson bounds are rounded to the grid.                          *)
(***************************************************************************)
NotEvaluated == [kind |-> "notEvaluated"]

\* let cpLow = 0; if (x > 0) { ... }
clopperPearsonLow(x, n, alpha) ==
  IF x > 0
  THEN LET v1L   == 2 * (n - x + 1)
           v2L   == 2 * x
           fValL == getFCritical(Scale - FDivInt(alpha, 2), v1L, v2L)
       IN  [value |-> QDiv(Q(x, 1), QAdd(Q(x, 1), QMul(Q(n - x + 1, 1), fValL))),
            fVal  |-> fValL]
  ELSE [value |-> Zero, fVal |-> NotEvaluated]

\* the initial value of cpHigh copied from that of cpLow
clopperPearsonHighZeroDefault(x, n, alpha) ==
  IF x < n
  THEN LET v1U   == 2 * (x + 1)
           v2U   == 2 * (n - x)
           fValU == getFCritical(Scale - FDivInt(alpha, 2), v1U, v2U)
       IN  [value |-> QDiv(QMul(Q(x + 1, 1), fValU),
                           QAdd(Q(n - x, 1), QMul(Q(x + 1, 1), fValU))),
            fVal  |-> fValU]
  ELSE [value |-> Zero, fVal |-> NotEvaluated]

\* let cpHigh = 1; if (x < n) { ... }
clopperPearsonHigh(x, n, alpha) ==
  IF x < n
  THEN LET v1U   == 2 * (x + 1)
           v2U   == 2 * (n - x)
           fValU == getFCritical(Scale - FDivInt(alpha, 2), v1U, v2U)
       IN  [value |-> QDiv(QMul(Q(x + 1, 1), fValU),
                           QAdd(Q(n - x, 1), QMul(Q(x + 1, 1), fValU))),
            fVal  |-> fValU]
  ELSE [value |-> One, fVal |-> NotEvaluated]

\* Math.sqrt of a rational x >= 0 in units of 10^-6: two more decimals than
\* the grid when x is small
Sqrt6(x) ==
  IF QLt(x, Q(1, 100)) THEN FSqrt(QToFx(QMul(x, Q(10000, 1))))
  ELSE IF QLt(x, One) THEN 25 * FSqrt(QToFx(QMul(x, Q(16, 1))))
  ELSE 100 * FSqrt(QToFx(x))

\* z * s on the grid, z >= 0 on the grid and s >= 0 in units of 10^-6
MulFine(z, s) == (z * (s \div 1000) + (z * (s % 1000)) \div 1000 + 500) \div 1000

ciProportionCompute(x, n, conf, precision) ==
  LET p      == Q(x, n)
      q      == QSub(One, p)
      nQ     == Q(n, 1)
      alpha  == Scale - FDivInt(conf, 100)
      zFx    == getZCritical(conf)
      zCrit  == FxQ(zFx)
      z2     == Rnd(QMul(zCrit, zCrit))
      seWald == Sqrt6(QDiv(QMul(p, q), nQ))
      wLow   == QSub(p, FxQ(MulFine(zFx, seWald)))
      wHigh  == QAdd(p, FxQ(MulFine(zFx, seWald)))
      wilsonDenom  == QAdd(One, QDiv(z2, nQ))
      wilsonCenter == QAdd(p, QDiv(z2, Q(2 * n, 1)))
      wilsonSpread == FxQ(MulFine(zFx, Sqrt6(QAdd(QDiv(QMul(p, q), nQ),
                                                  QDiv(z2, Q(4 * n * n, 1))))))
      wilsonLow    == Rnd(QDiv(QSub(wilsonCenter, wilsonSpread), wilsonDenom))
      wilsonHigh   == Rnd(QDiv(QAdd(wilsonCenter, wilsonSpread), wilsonDenom))
      ccRootLow  == MathSqrt(QAdd(QSub(z2, Q(2 * n + 1, n)),
                                  QMul(Q(4 * x, n), QAdd(QMul(nQ, q), One))))
      ccRootHigh == MathSqrt(QAdd(QAdd(z2, Q(2 * n - 1, n)),
                                  QMul(Q(4 * x, n), QSub(QMul(nQ, q), One))))
      ccDenom    == QMul(Q(2, 1), QAdd(nQ, z2))
      wilsonCCLow  == QDiv(QSub(QSub(QAdd(Q(2 * x, 1), z2), One),
                                Rnd(QMul(zCrit, ccRootLow))), ccDenom)
      wilsonCCHigh == QDiv(QAdd(QAdd(QAdd(Q(2 * x, 1), z2), One),
                                Rnd(QMul(zCrit, ccRootHigh))), ccDenom)
      cpL == clopperPearsonLow(x, n, alpha)
      cpH == clopperPearsonHigh(x, n, alpha)
  IN  [results |-> << [label |-> "Observed Proportion", value |-> toFixed(p, precision)],
                      [label |-> "Wilson Score CI",
                       value |-> formatCI(wilsonLow, wilsonHigh, precision)],
                      [label |-> "Clopper-Pearson CI",
                       value |-> formatCI(cpL.value, cpH.value, precision)],
                      [label |-> "Wilson Score (with CC) CI",
                       value |-> formatCI(wilsonCCLow, wilsonCCHigh, precision)],
                      [label |-> "Normal (Wald) CI",
                       value |-> formatCI(wLow, wHigh, precision)] >>,
       interpretation |-> << toFixed(p, precision),
                             formatCI(wilsonLow, wilsonHigh, precision),
                             formatCI(cpL.value, cpH.value, precision) >>,
       p |-> p, wilsonLow |-> wilsonLow, wilsonHigh |-> wilsonHigh,
       cpLow |-> cpL.value, cpHigh |-> cpH.value, fValL |-> cpL.fVal, fValU |-> cpH.fVal]

(***************************************************************************)
(* epidemiology/standardizedRates: the standardized ratio (SMR / SIR) with *)
(* its 95% interval.                                                       *)
(***************************************************************************)
standardizedRatesCompute(observed, expected) ==
  LET ratio == Q(observed, expected)
      zCrit == FromMicro(1960000)
      lower == IF observed = 0 THEN Zero
               ELSE QDiv(FxQ(observed * Cube(Scale - FDivInt(Scale, 9 * observed)
                                             - FDiv(zCrit, 3 * FSqrt(FromInt(observed))))),
                         Q(expected, 1))
      upper == QDiv(FxQ((observed + 1) * Cube(Scale - FDivInt(Scale, 9 * (observed + 1))
                                              + FDiv(zCrit, 3 * FSqrt(FromInt(observed + 1))))),
                    Q(expected, 1))
  IN  [results |-> << [label |-> "Standardized Ratio", value |-> toFixed(ratio, 3)],
                      [label |-> "95% CI (Byar)", value |-> formatCI(lower, upper, 3)],
                      [label |-> "Excess Percentage",
                       value |-> toFixed(QMul(QSub(ratio, One), Q(100, 1)), 1)],
                      [label |-> "Observed / Expected",
                       value |-> << observed, toFixed(Q(expected, 1), 2) >>] >>,
       ratio |-> ratio, lower |-> lower, upper |-> upper]

(***************************************************************************)
(* The sample-size solvers.  Each returns, next to what the calculator     *)
(* reports, the real value f of its closed-form formula before Math.ceil.  *)
(* Means, SDs, proportions, power, alpha and ratio are rationals, the      *)
(* Normal quantiles are the library's fixed-point values.                  *)
(***************************************************************************)
\* getZCritical((1 - alpha) * 100)
zOfAlpha(alpha) == getZCritical(QToFx(QMul(QSub(One, alpha), Q(100, 1))))

\* getZCritical((power * 2 - 1) * 100)
zOfPower(power) == getZCritical(QToFx(QMul(QSub(QMul(power, Q(2, 1)), One), Q(100, 1))))

\* Math.pow(t, 2)
SquareQ(t) == IF IsFinite(t) THEN FxQ(FMul(QToFx(t), QToFx(t))) ELSE QMul(t, t)

sampleSizeMeansCompute(m1, m2, sd, power, alpha, ratio) ==
  LET delta  == QAbs(QSub(m1, m2))
      zAlpha == zOfAlpha(alpha)
      zPower == zOfPower(power)
      f      == QDiv(QMul(QMul(QMul(sd, sd), QAdd(One, QRecip(ratio))),
                          SquareQ(FxQ(zAlpha + zPower))),
                     QMul(delta, delta))
      n1     == QCeil(f)
      n2     == QCeil(QMul(n1, ratio))
      d      == QDiv(delta, sd)
  IN  [results |-> << [label |-> "Group 1 Size (n1)", value |-> n1],
                      [label |-> "Group 2 Size (n2)", value |-> n2],
                      [label |-> "Total Sample Size", value |-> QAdd(n1, n2)],
                      [label |-> "Cohen's d", value |-> toFixed(d, 3)] >>,
       f |-> f, n |-> n1, n2 |-> n2]

sampleSizeMeanEstimateCompute(sd, precision, conf) ==
  LET z == getZCritical(conf)
      f == SquareQ(QDiv(QMul(FxQ(z), sd), precision))
      n == QCeil(f)
  IN  [results |-> << [label |-> "Required Sample Size (n)", value |-> n],
                      [label |-> "Z-Critical", value |-> toFixed(FxQ(z), 3)] >>,
       f |-> f, n |-> n]

\* const zMap = { 90: 1.645, 95: 1.96, 99: 2.576 }; zMap[conf] || 1.96
zMap(conf) ==
  IF conf = FromInt(90) THEN Q(1645, 1000)
  ELSE IF conf = FromInt(99) THEN Q(2576, 1000)
  ELSE Q(196, 100)

sampleSizePropCompute(p, d, conf) ==
  LET zVal == zMap(conf)
      f    == QDiv(QMul(QMul(zVal, zVal), QMul(p, QSub(One, p))), QMul(d, d))
      n    == QCeil(f)
  IN  [results |-> << [label |-> "Estimated Proportion (p)", value |-> p],
                      [label |-> "Margin of Error (d)", value |-> d],
                      [label |-> "Confidence Level", value |-> conf],
                      [label |-> "Required Sample Size (n)", value |-> n] >>,
       f |-> f, n |-> n]

sampleSizeTwoPropsCompute(p1, p2, power, alpha, ratio) ==
  LET q1     == QSub(One, p1)
      q2     == QSub(One, p2)
      pAvg   == QDiv(QAdd(p1, QMul(ratio, p2)), QAdd(One, ratio))
      qAvg   == QSub(One, pAvg)
      zAlpha == zOfAlpha(alpha)
      zPower == zOfPower(power)
      root1  == Sqrt6(QMul(QMul(QAdd(One, QRecip(ratio)), pAvg), qAvg))
      root2  == Sqrt6(QAdd(QMul(p1, q1), QDiv(QMul(p2, q2), ratio)))
      sum    == MulFine(zAlpha, root1) + MulFine(zPower, root2)
      f      == QDiv(FxQ(FMul(sum, sum)), QMul(QSub(p1, p2), QSub(p1, p2)))
      n1     == QCeil(f)
      n2     == QCeil(QMul(n1, ratio))
  IN  [results |-> << [label |-> "Group 1 Size (n1)", value |-> n1],
                      [label |-> "Group 2 Size (n2)", value |-> n2],
                      [label |-> "Total N", value |-> QAdd(n1, n2)],
                      [label |-> "Difference (p1 - p2)", value |-> toFixed(QSub(p1, p2), 4)],
                      [label |-> "Average Proportion", value |-> toFixed(pAvg, 4)] >>,
       f |-> f, n |-> n1, n2 |-> n2]

\* Math.round in the place of Math.ceil
sampleSizePairedComputeRound(diff, sdDiff, power, alpha) ==
  LET zAlpha == zOfAlpha(alpha)
      zPower == zOfPower(power)
      f      == SquareQ(QDiv(QMul(sdDiff, FxQ(zAlpha + zPower)), diff))
      n      == IF IsFinite(f) THEN Q((2 * f.n + f.d) \div (2 * f.d), 1) ELSE f
  IN  [results |-> << [label |-> "Required Pairs (n)", value |-> n],
                      [label |-> "Total Observations", value |-> QMul(n, Q(2, 1))],
                      [label |-> "Standardized Effect Size (dz)",
                       value |-> toFixed(QDiv(diff, sdDiff), 3)] >>,
       f |-> f, n |-> n]

sampleSizePairedCompute(diff, sdDiff, power, alpha) ==
  LET zAlpha == zOfAlpha(alpha)
      zPower == zOfPower(power)
      f      == SquareQ(QDiv(QMul(sdDiff, FxQ(zAlpha + zPower)), diff))
      n      == QCeil(f)
  IN  [results |-> << [label |-> "Required Pairs (n)", value |-> n],
                      [label |-> "Total Observations", value |-> QMul(n, Q(2, 1))],
                      [label |-> "Standardized Effect Size (dz)",
                       value |-> toFixed(QDiv(diff, sdDiff), 3)] >>,
       f |-> f, n |-> n]

\* const calculateN = (targetPower) => { ... }, zAlpha captured from compute
calculateN(pStandard, pTest, margin, zAlpha, targetPower) ==
  LET zPower      == zOfPower(targetPower)
      numerator   == QMul(SquareQ(FxQ(zAlpha + zPower)),
                          QAdd(QMul(pStandard, QSub(One, pStandard)),
                               QMul(pTest, QSub(One, pTest))))
      effect      == QSub(QSub(pTest, pStandard), margin)
      denominator == QMul(effect, effect)
      nPerArm     == QCeil(QDiv(numerator, denominator))
  IN  [n |-> nPerArm, nTotal |-> QMul(nPerArm, Q(2, 1)),
       f |-> QDiv(numerator, denominator)]

spectrumPowers ==
  << Q(70, 100), Q(75, 100), Q(80, 100), Q(85, 100), Q(90, 100), Q(95, 100), Q(99, 100) >>

sampleSizeNonInferiorityCompute(pStandard, pTest, margin, power, alpha) ==
  LET zAlpha == getZCritical(QToFx(QMul(QSub(One, QMul(alpha, Q(2, 1))), Q(100, 1))))
      mainN  == calculateN(pStandard, pTest, margin, zAlpha, power)
      n      == mainN.n
      powerSpectrum ==
        [i \in DOMAIN spectrumPowers |->
           LET c == calculateN(pStandard, pTest, margin, zAlpha, spectrumPowers[i])
           IN  [power |-> QMul(spectrumPowers[i], Q(100, 1)), n |-> c.n, nTotal |-> c.nTotal]]
  IN  [results |-> << [label |-> "Required per Group (n)", value |-> n],
                      [label |-> "Total Sample Size", value |-> QMul(n, Q(2, 1))],
                      [label |-> "Z-Alpha (One-sided)", value |-> toFixed(FxQ(zAlpha), 3)] >>,
       powerSpectrum |-> powerSpectrum,
       f |-> mainN.f, n |-> n]

\* the cluster count rounded up once, from the unrounded adjusted N
sampleSizeClusterComputeOnce(nIndividual, m, icc) ==
  LET designEffect == QAdd(One, QMul(QSub(m, One), icc))
      f            == QMul(nIndividual, designEffect)
      nAdjusted    == QCeil(f)
      numClusters  == QCeil(QDiv(f, m))
  IN  [results |-> << [label |-> "Adjusted Total N", value |-> nAdjusted],
                      [label |-> "Required Clusters", value |-> numClusters],
                      [label |-> "Design Effect (DEFF)", value |-> toFixed(designEffect, 3)],
                      [label |-> "Increase Factor",
                       value |-> toFixed(QSub(QMul(designEffect, Q(100, 1)), Q(100, 1)), 1)] >>,
       designEffect |-> designEffect, f |-> f, n |-> nAdjusted, numClusters |-> numClusters]

sampleSizeClusterCompute(nIndividual, m, icc) ==
  LET designEffect == QAdd(One, QMul(QSub(m, One), icc))
      f            == QMul(nIndividual, designEffect)
      nAdjusted    == QCeil(f)
      numClusters  == QCeil(QDiv(nAdjusted, m))
  IN  [results |-> << [label |-> "Adjusted Total N", value |-> nAdjusted],
                      [label |-> "Required Clusters", value |-> numClusters],
                      [label |-> "Design Effect (DEFF)", value |-> toFixed(designEffect, 3)],
                      [label |-> "Increase Factor",
                       value |-> toFixed(QSub(QMul(designEffect, Q(100, 1)), Q(100, 1)), 1)] >>,
       designEffect |-> designEffect, f |-> f, n |-> nAdjusted, numClusters |-> numClusters]

(***************************************************************************)
(* The power-given-n calculators.  getNormalCDF on a JavaScript number:    *)
(* NaN stays NaN, erf of an infinite argument is its sign (t = 0 and       *)
(* Math.exp(-Infinity) = 0), and beyond eight standard deviations the      *)
(* fixed-point value is already 0 or 1.                                    *)
(***************************************************************************)
NormalCDF(z) ==
  IF IsNaN(z) THEN NaN
  ELSE IF z.d = 0 THEN (IF z.n > 0 THEN One ELSE Zero)
  ELSE IF QLt(Q(8, 1), z) THEN One
  ELSE IF QLt(z, Q(-8, 1)) THEN Zero
  ELSE FxQ(getNormalCDF(QToFx(z)))

\* (power * 100).toFixed(2) + '%'
PercentText(power) == toFixed(QMul(power, Q(100, 1)), 2)

powerMeansCompute(n1, n2, m1, m2, sd, alpha) ==
  LET diff   == QAbs(QSub(m1, m2))
      zAlpha == FxQ(zOfAlpha(alpha))
      se     == Rnd(QMul(sd, MathSqrt(QAdd(Q(1, n1), Q(1, n2)))))
      lam    == Rnd(QDiv(diff, se))
      power  == QAdd(NormalCDF(QSub(lam, zAlpha)), NormalCDF(QSub(QNeg(lam), zAlpha)))
  IN  [results |-> << [label |-> "Statistical Power (1 - beta)", value |-> PercentText(power)],
                      [label |-> "Type II Error (beta)", value |-> PercentText(QSub(One, power))],
                      [label |-> "Effect Size (Cohen's d)", value |-> toFixed(QDiv(diff, sd), 3)],
                      [label |-> "Critical Z (alpha/2)", value |-> toFixed(zAlpha, 3)],
                      [label |-> "Standard Error", value |-> toFixed(se, 4)] >>,
       power |-> power]

powerProportionsCompute(n1, n2, p1, p2, alpha) ==
  LET q1     == QSub(One, p1)
      q2     == QSub(One, p2)
      pAvg   == QDiv(QAdd(QMul(Q(n1, 1), p1), QMul(Q(n2, 1), p2)), Q(n1 + n2, 1))
      qAvg   == QSub(One, pAvg)
      zAlpha == FxQ(zOfAlpha(alpha))
      se0    == MathSqrt(QMul(QMul(pAvg, qAvg), QAdd(Q(1, n1), Q(1, n2))))
      seA    == MathSqrt(QAdd(QDiv(QMul(p1, q1), Q(n1, 1)), QDiv(QMul(p2, q2), Q(n2, 1))))
      diff   == QAbs(QSub(p1, p2))
      zBeta  == Rnd(QDiv(QSub(diff, Rnd(QMul(zAlpha, se0))), seA))
      power  == NormalCDF(zBeta)
  IN  [results |-> << [label |-> "Statistical Power", value |-> PercentText(power)],
                      [label |-> "Type II Error (beta)", value |-> PercentText(QSub(One, power))],
                      [label |-> "Risk Difference", value |-> toFixed(diff, 4)],
                      [label |-> "Pooled Proportion", value |-> toFixed(pAvg, 4)] >>,
       power |-> power]

powerPairedCompute(n, diff, sdDiff, alpha) ==
  LET se     == Rnd(QDiv(sdDiff, MathSqrt(Q(n, 1))))
      delta  == QAbs(diff)
      zAlpha == FxQ(zOfAlpha(alpha))
      zBeta  == QSub(Rnd(QDiv(delta, se)), zAlpha)
      power  == NormalCDF(zBeta)
  IN  [results |-> << [label |-> "Statistical Power", value |-> PercentText(power)],
                      [label |-> "Effect Size (dz)", value |-> toFixed(QDiv(delta, sdDiff), 3)],
                      [label |-> "Standard Error", value |-> toFixed(se, 4)] >>,
       power |-> power]

powerNonInfCompute(nPerGroup, pStandard, pTest, margin, alpha) ==
  LET zAlpha == FxQ(getZCritical(QToFx(QMul(QSub(One, QMul(alpha, Q(2, 1))), Q(100, 1)))))
      se     == Norm(Sqrt6(QDiv(QAdd(QMul(pStandard, QSub(One, pStandard)),
                                     QMul(pTest, QSub(One, pTest))),
                                Q(nPerGroup, 1))), 1000000)
      zBeta  == QSub(Rnd(QDiv(QAdd(QSub(pTest, pStandard), margin), se)), zAlpha)
      power  == NormalCDF(zBeta)
  IN  [results |-> << [label |-> "Statistical Power", value |-> PercentText(power)],
                      [label |-> "Standard Error", value |-> toFixed(se, 4)],
                      [label |-> "Z-Alpha (One-sided)", value |-> toFixed(zAlpha, 3)] >>,
       power |-> power, se |-> se, zBeta |-> zBeta]

(***************************************************************************)
(* The state machine.  Every function is synchronous: the caller, when     *)
(* idle, supplies the arguments of one call (for a 2x2 function the counts *)
(* a table is constructed from), the call runs to completion and leaves    *)
(* its return value in result, and the caller takes the result and is idle *)
(* again.  given is the table as the caller supplied it, table is the      *)
(* caller's table after the call.                                          *)
(***************************************************************************)
ZeroTable == [a |-> Zero, b |-> Zero, c |-> Zero, d |-> Zero]

Init ==
  /\ table = ZeroTable
  /\ given = ZeroTable
  /\ op = "idle"
  /\ args = NoArgs
  /\ result = NoResult

Return ==
  /\ op # "idle"
  /\ table' = ZeroTable
  /\ given' = ZeroTable
  /\ op' = "idle"
  /\ args' = NoArgs
  /\ result' = NoResult

\* A call of a function of a 2x2 table: t is the table built from the supplied
\* counts and r the value the call returns.
ApplyContinuityCorrection(t, r) ==
  /\ op = "idle"
  /\ given' = t
  /\ table' = t
  /\ op' = "applyContinuityCorrection"
  /\ args' = NoArgs
  /\ result' = r

ComputeRR(t, conf, r) ==
  /\ op = "idle"
  /\ given' = t
  /\ table' = t
  /\ op' = "computeRR"
  /\ args' = Args(conf, FALSE, 0, 0)
  /\ result' = r

\* computeOR writing the corrected cells back into the caller's record
ComputeORInPlace(t, conf, r) ==
  /\ op = "idle"
  /\ given' = t
  /\ table' = applyContinuityCorrection(t)
  /\ op' = "computeOR"
  /\ args' = Args(conf, FALSE, 0, 0)
  /\ result' = r

ComputeOR(t, conf, r) ==
  /\ op = "idle"
  /\ given' = t
  /\ table' = t
  /\ op' = "computeOR"
  /\ args' = Args(conf, FALSE, 0, 0)
  /\ result' = r

ComputeRD(t, conf, r) ==
  /\ op = "idle"
  /\ given' = t
  /\ table' = t
  /\ op' = "computeRD"
  /\ args' = Args(conf, FALSE, 0, 0)
  /\ result' = r

EpiMeasures(t, r) ==
  /\ op = "idle"
  /\ given' = t
  /\ table' = t
  /\ op' = "epiMeasures"
  /\ args' = NoArgs
  /\ result' = r

RiskRatioCalc(t, r) ==
  /\ op = "idle"
  /\ given' = t
  /\ table' = t
  /\ op' = "riskRatioCalc"
  /\ args' = NoArgs
  /\ result' = r

OddsRatioCalc(t, r) ==
  /\ op = "idle"
  /\ given' = t
  /\ table' = t
  /\ op' = "oddsRatioCalc"
  /\ args' = NoArgs
  /\ result' = r

RiskDiffCalc(t, r) ==
  /\ op = "idle"
  /\ given' = t
  /\ table' = t
  /\ op' = "riskDiffCalc"
  /\ args' = NoArgs
  /\ result' = r

ChiSquare(t, yates, r) ==
  /\ op = "idle"
  /\ given' = t
  /\ table' = t
  /\ op' = "chiSquare"
  /\ args' = Args(DefaultConf, yates, 0, 0)
  /\ result' = r

CiEpi(t, conf, r) ==
  /\ op = "idle"
  /\ given' = t
  /\ table' = t
  /\ op' = "ciEpi"
  /\ args' = Args(conf, FALSE, 0, 0)
  /\ result' = r

\* A call of a library primitive, returning r.
GetTCritical(conf, df, r) ==
  /\ op = "idle"
  /\ op' = "getTCritical"
  /\ args' = Args(conf, FALSE, 0, df)
  /\ result' = [value |-> r]
  /\ UNCHANGED <<table, given>>

GetTPValue(t, df, r) ==
  /\ op = "idle"
  /\ op' = "getTPValue"
  /\ args' = Args(DefaultConf, FALSE, t, df)
  /\ result' = r
  /\ UNCHANGED <<table, given>>

GetChiSqPValue(chi2, df, r) ==
  /\ op = "idle"
  /\ op' = "getChiSqPValue"
  /\ args' = Args(DefaultConf, FALSE, chi2, df)
  /\ result' = [value |-> r]
  /\ UNCHANGED <<table, given>>

GetChiSqCritical(p, df, r) ==
  /\ op = "idle"
  /\ op' = "getChiSqCritical"
  /\ args' = Args(DefaultConf, FALSE, p, df)
  /\ result' = [value |-> r]
  /\ UNCHANGED <<table, given>>

\* getChiSqCritical(p, df) fed back into getChiSqPValue with the same df:
\* c is the critical value and r the p-value of c.
ChiSqRoundTrip(p, df, c, r) ==
  /\ op = "idle"
  /\ op' = "chiSqRoundTrip"
  /\ args' = [p |-> p, df |-> df]
  /\ result' = [critical |-> c, value |-> r]
  /\ UNCHANGED <<table, given>>

CiRatePoisson(k, T, conf, precision, r) ==
  /\ op = "idle"
  /\ op' = "ciRatePoisson"
  /\ args' = [k |-> k, T |-> T, conf |-> conf, precision |-> precision]
  /\ result' = r
  /\ UNCHANGED <<table, given>>

CiVariance(sd, n, conf, precision, r) ==
  /\ op = "idle"
  /\ op' = "ciVariance"
  /\ args' = [sd |-> sd, n |-> n, conf |-> conf, precision |-> precision]
  /\ result' = r
  /\ UNCHANGED <<table, given>>

\* events: integers >= 0; person-time: > 0 (1000 is that of scenario B)
Events == 0 .. MaxK

PersonTimes == {1, 2, 1000}

Precisions == {4}

CiProportion(x, n, conf, precision, r) ==
  /\ op = "idle"
  /\ op' = "ciProportion"
  /\ args' = [x |-> x, n |-> n, conf |-> conf, precision |-> precision]
  /\ result' = r
  /\ UNCHANGED <<table, given>>

\* trials n >= 1 and successes 0 <= x <= n
Binomials == {b \in (0 .. 20) \X ((1 .. MaxTrials) \cup {13, 20}) : b[1] <= b[2]}

\* A call of a sample-size solver with the arguments a, returning r.
SampleSizeMeans(a, r) ==
  /\ op = "idle"
  /\ op' = "sampleSizeMeans"
  /\ args' = a
  /\ result' = r
  /\ UNCHANGED <<table, given>>

SampleSizeMeanEstimate(a, r) ==
  /\ op = "idle"
  /\ op' = "sampleSizeMeanEstimate"
  /\ args' = a
  /\ result' = r
  /\ UNCHANGED <<table, given>>

SampleSizeProp(a, r) ==
  /\ op = "idle"
  /\ op' = "sampleSizeProp"
  /\ args' = a
  /\ result' = r
  /\ UNCHANGED <<table, given>>

SampleSizeTwoProps(a, r) ==
  /\ op = "idle"
  /\ op' = "sampleSizeTwoProps"
  /\ args' = a
  /\ result' = r
  /\ UNCHANGED <<table, given>>

SampleSizePaired(a, r) ==
  /\ op = "idle"
  /\ op' = "sampleSizePaired"
  /\ args' = a
  /\ result' = r
  /\ UNCHANGED <<table, given>>

SampleSizeNonInferiority(a, r) ==
  /\ op = "idle"
  /\ op' = "sampleSizeNonInferiority"
  /\ args' = a
  /\ result' = r
  /\ UNCHANGED <<table, given>>

SampleSizeCluster(a, r) ==
  /\ op = "idle"
  /\ op' = "sampleSizeCluster"
  /\ args' = a
  /\ result' = r
  /\ UNCHANGED <<table, given>>

\* the inputs of the solvers
Powers == {Q(80, 100), Q(90, 100)}

Alphas == {Q(5, 100), Q(1, 100)}

Ratios == {Q(1, 2), One, Q(2, 1), Q(3, 2)}

Means == {Q(k, 1) : k \in 0 .. MaxMean}

SDs == {Q(1, 1), Q(2, 1), Q(15, 1)}

Proportions == {Q(k, 20) : k \in {2, 4, 6, 10, 17, 19}}

MeansArgs ==
  [m1 : Means, m2 : Means, sd : SDs, power : Powers, alpha : Alphas, ratio : Ratios]

MeanEstimateArgs == [sd : SDs, precision : {Q(1, 2), Q(1, 1), Q(5, 1)}, conf : Confs]

PropArgs == [p : Proportions, d : {Q(1, 20), Q(1, 10)}, conf : Confs]

TwoPropsArgs ==
  [p1 : Proportions, p2 : Proportions, power : Powers, alpha : Alphas, ratio : Ratios]

PairedArgs == [diff : Means, sdDiff : SDs, power : Powers, alpha : Alphas]

NonInferiorityArgs ==
  [pStandard : Proportions, pTest : Proportions, margin : {Q(1, 20), Q(1, 10)},
   power : Powers, alpha : {Q(25, 1000), Q(5, 100)}]

ClusterArgs ==
  [nIndividual : {Q(k, 1) : k \in (1 .. MaxNIndividual) \cup {12, 200}},
   m : {Q(2, 1), Q(5, 2), Q(3, 1), Q(20, 1)},
   icc : {Zero, Q(1, 50), Q(1, 20), Q(1, 2), One}]

\* A call of a power-given-n calculator with the arguments a, returning r.
PowerMeans(a, r) ==
  /\ op = "idle"
  /\ op' = "powerMeans"
  /\ args' = a
  /\ result' = r
  /\ UNCHANGED <<table, given>>

PowerProportions(a, r) ==
  /\ op = "idle"
  /\ op' = "powerProportions"
  /\ args' = a
  /\ result' = r
  /\ UNCHANGED <<table, given>>

PowerPaired(a, r) ==
  /\ op = "idle"
  /\ op' = "powerPaired"
  /\ args' = a
  /\ result' = r
  /\ UNCHANGED <<table, given>>

PowerNonInf(a, r) ==
  /\ op = "idle"
  /\ op' = "powerNonInf"
  /\ args' = a
  /\ result' = r
  /\ UNCHANGED <<table, given>>

\* the inputs of the power calculators, the ends of the schema ranges included
GroupSizes == (2 .. MaxGroup) \cup {50, 100}

PowerAlphas == {Q(1, 1000), Q(5, 100), Q(1, 2)}

EndProportions == {Zero, Q(1, 5), Q(7, 20), Q(1, 2), One}

PowerMeansArgs ==
  [n1 : GroupSizes, n2 : {2, 50},
   m1 : {Q(0, 1), Q(1, 1), Q(10, 1), Q(1000, 1)}, m2 : {Q(0, 1), Q(10, 1)},
   sd : {Q(1, 10), Q(1, 1), Q(20, 1)}, alpha : PowerAlphas]

PowerProportionsArgs ==
  [n1 : GroupSizes, n2 : {2, 100}, p1 : EndProportions, p2 : EndProportions,
   alpha : PowerAlphas]

PowerPairedArgs ==
  [n : GroupSizes, diff : {Q(-5, 1), Q(0, 1), Q(5, 1), Q(1000, 1)}, 
   sdDiff : {Q(1, 10), Q(1, 1), Q(20, 1)},
   alpha : PowerAlphas]

PowerNonInfArgs ==
  [nPerGroup : GroupSizes, pStandard : {Q(1, 100), Q(4, 5), Q(99, 100)},
   pTest : {Q(1, 100), Q(4, 5), Q(99, 100)}, margin : {Q(1, 1000), Q(1, 10), Q(3, 10)},
   alpha : {Q(1, 1000), Q(25, 1000), Q(1, 5)}]

\* the table with its exposure rows exchanged: (a, b) <-> (c, d)
swapRows(t) == [a |-> t.c, b |-> t.d, c |-> t.a, d |-> t.b]

\* computeRR on a table and on the table with its rows exchanged
ComputeRRSwapped(t, conf, r, rs) ==
  /\ op = "idle"
  /\ given' = t
  /\ table' = t
  /\ op' = "computeRRSwapped"
  /\ args' = Args(conf, FALSE, 0, 0)
  /\ result' = [direct |-> r, swapped |-> rs]

\* computeOR on a table and on the table with its rows exchanged
ComputeORSwapped(t, conf, r, rs) ==
  /\ op = "idle"
  /\ given' = t
  /\ table' = t
  /\ op' = "computeORSwapped"
  /\ args' = Args(conf, FALSE, 0, 0)
  /\ result' = [direct |-> r, swapped |-> rs]

StandardizedRates(observed, expected, r) ==
  /\ op = "idle"
  /\ op' = "standardizedRates"
  /\ args' = [observed |-> observed, expected |-> expected]
  /\ result' = r
  /\ UNCHANGED <<table, given>>

\* sampleSizeNonInferiority, and powerNonInf evaluated at the nPerGroup it
\* returned (an integer >= 2, as the schema of powerNonInf requires): s is the
\* solver's result and r the power calculator's.
NonInfRoundTrip(a, s, r) ==
  /\ op = "idle"
  /\ IsFinite(s.n)
  /\ s.n.n >= 2
  /\ op' = "nonInfRoundTrip"
  /\ args' = a
  /\ result' = [n |-> s.n, power |-> r.power]
  /\ UNCHANGED <<table, given>>

\* chi2 > 0 is paired with df > 0 only
ChiSqPValueArgs ==
  {a \in ({k * (Scale \div 2) : k \in -1 .. MaxChi} \cup {FromMicro(3840000)}) \X Dfs :
     a[1] <= 0 \/ a[2] > 0}

Next ==
  \/ Return
  \/ \E t \in Table2x2 : ApplyContinuityCorrection(t, applyContinuityCorrection(t))
  \/ \E t \in Table2x2, conf \in Confs : ComputeRR(t, conf, computeRR(t, conf))
  \/ \E t \in Table2x2, conf \in Confs : ComputeOR(t, conf, computeOR(t, conf))
  \/ \E t \in Table2x2, conf \in Confs : ComputeRD(t, conf, computeRD(t, conf))
  \/ \E t \in Table2x2 : EpiMeasures(t, epiMeasuresCompute(t))
  \/ \E t \in Table2x2 : RiskRatioCalc(t, riskRatioCalcCompute(t))
  \/ \E t \in Table2x2 : OddsRatioCalc(t, oddsRatioCalcCompute(t))
  \/ \E t \in Table2x2 : RiskDiffCalc(t, riskDiffCalcCompute(t))
  \/ \E t \in Table2x2, yates \in BOOLEAN : ChiSquare(t, yates, chiSquareCompute(t, yates))
  \/ \E t \in Table2x2, conf \in Confs : CiEpi(t, conf, ciEpiCompute(t, conf))
  \/ \E conf \in Confs, df \in Dfs : GetTCritical(conf, df, getTCritical(conf, df))
  \/ \E t \in Ts, df \in {df \in Dfs : df > 0} : GetTPValue(t, df, getTPValue(t, df))
  \/ \E a \in ChiSqPValueArgs : GetChiSqPValue(a[1], a[2], getChiSqPValue(a[1], a[2]))
  \/ \E p \in {FromMicro(25000), FromMicro(50000), FromMicro(500000), FromMicro(950000),
              FromMicro(975000)},
        df \in Dfs : GetChiSqCritical(p, df, getChiSqCritical(p, df))
  \/ \E p \in {FromMicro(10000), FromMicro(50000), FromMicro(250000), FromMicro(500000),
              FromMicro(750000), FromMicro(950000), FromMicro(990000)},
        df \in (1 .. MaxDf) \cup {30, 100} :
       ChiSqRoundTrip(p, df, getChiSqCritical(p, df),
                      getChiSqPValue(getChiSqCritical(p, df), df))
  \/ \E k \in Events, T \in PersonTimes, conf \in Confs, precision \in Precisions :
       CiRatePoisson(k, T, conf, precision, ciRatePoissonCompute(k, T, conf, precision))
  \/ \E sd \in {Q(1, 2), Q(1, 1), Q(15, 1)}, n \in (2 .. MaxN) \cup {20, 30, 300},
        conf \in Confs, precision \in Precisions :
       CiVariance(sd, n, conf, precision, ciVarianceCompute(sd, n, conf, precision))
  \/ \E b \in Binomials, conf \in Confs, precision \in Precisions :
       CiProportion(b[1], b[2], conf, precision,
                    ciProportionCompute(b[1], b[2], conf, precision))
  \/ \E a \in MeansArgs :
       SampleSizeMeans(a, sampleSizeMeansCompute(a.m1, a.m2, a.sd, a.power, a.alpha, a.ratio))
  \/ \E a \in MeanEstimateArgs :
       SampleSizeMeanEstimate(a, sampleSizeMeanEstimateCompute(a.sd, a.precision, a.conf))
  \/ \E a \in PropArgs : SampleSizeProp(a, sampleSizePropCompute(a.p, a.d, a.conf))
  \/ \E a \in TwoPropsArgs :
       SampleSizeTwoProps(a, sampleSizeTwoPropsCompute(a.p1, a.p2, a.power, a.alpha, a.ratio))
  \/ \E a \in PairedArgs :
       SampleSizePaired(a, sampleSizePairedCompute(a.diff, a.sdDiff, a.power, a.alpha))
  \/ \E a \in NonInferiorityArgs :
       SampleSizeNonInferiority(a, sampleSizeNonInferiorityCompute(a.pStandard, a.pTest,
                                                                    a.margin, a.power, a.alpha))
  \/ \E a \in ClusterArgs :
       SampleSizeCluster(a, sampleSizeClusterCompute(a.nIndividual, a.m, a.icc))
  \/ \E a \in PowerMeansArgs :
       PowerMeans(a, powerMeansCompute(a.n1, a.n2, a.m1, a.m2, a.sd, a.alpha))
  \/ \E a \in PowerProportionsArgs :
       PowerProportions(a, powerProportionsCompute(a.n1, a.n2, a.p1, a.p2, a.alpha))
  \/ \E a \in PowerPairedArgs :
       PowerPaired(a, powerPairedCompute(a.n, a.diff, a.sdDiff, a.alpha))
  \/ \E a \in PowerNonInfArgs :
       PowerNonInf(a, powerNonInfCompute(a.nPerGroup, a.pStandard, a.pTest, a.margin, a.alpha))
  \/ \E t \in Table2x2, conf \in {DefaultConf} :
       ComputeRRSwapped(t, conf, computeRR(t, conf), computeRR(swapRows(t), conf))
  \/ \E t \in Table2x2, conf \in {DefaultConf} :
       ComputeORSwapped(t, conf, computeOR(t, conf), computeOR(swapRows(t), conf))
  \/ \E observed \in Events \cup {45}, expected \in PersonTimes :
       StandardizedRates(observed, expected, standardizedRatesCompute(observed, expected))
  \/ \E a \in NonInferiorityArgs :
       LET s == sampleSizeNonInferiorityCompute(a.pStandard, a.pTest, a.margin, a.power, a.alpha)
       IN  NonInfRoundTrip(a, s,
             IF IsFinite(s.n) /\ s.n.n >= 2
               THEN powerNonInfCompute(s.n.n, a.pStandard, a.pTest, a.margin, a.alpha)
               ELSE [power |-> NaN])

Spec == Init /\ [][Next]_vars

TypeOK ==
  /\ table \in Table2x2
  /\ given \in Table2x2

(***************************************************************************)
(* The counts of the table the caller supplied, as integers.               *)
(***************************************************************************)
A == given.a.n

B == given.b.n

C == given.c.n

D == given.d.n

Row1 == A + B

Row2 == C + D

Col1 == A + C

Col2 == B + D

N == A + B + C + D

AllCellsPositive == A > 0 /\ B > 0 /\ C > 0 /\ D > 0

AnyCellZero == A = 0 \/ B = 0 \/ C = 0 \/ D = 0

(***************************************************************************)
(* C1: on a table whose four cells are all > 0, computeRR returns          *)
(* value = (a/(a+b)) / (c/(c+d)) and computeOR returns value = ad/(bc),    *)
(* from the counts as supplied (no 0.5 added); the risk-ratio calculator   *)
(* reports that value; the table {20, 80, 10, 90} gives RR = 2 and         *)
(* OR = 2.25.                                                              *)
(***************************************************************************)
C1_RatiosUncorrectedOnPositiveTables ==
  /\ (op = "computeRR" /\ AllCellsPositive) => result.value = Q(A * Row2, C * Row1)
  /\ (op = "computeOR" /\ AllCellsPositive) => result.value = Q(A * D, B * C)
  /\ (op = "riskRatioCalc" /\ AllCellsPositive) =>
       /\ result.res.value = Q(A * Row2, C * Row1)
       /\ result.results[1].value = toFixed(Q(A * Row2, C * Row1), 3)
  /\ (op = "computeRR" /\ given = ScenarioA) => result.value = Q(2, 1)
  /\ (op = "computeOR" /\ given = ScenarioA) => result.value = Q(9, 4)
  /\ (op = "riskRatioCalc" /\ given = ScenarioA) => result.results[1].value.scaled = 2000

C1_Witness ==
  /\ op = "computeRR"
  /\ given = ScenarioA
  /\ result.value = Q(2, 1)

(***************************************************************************)
(* C2: applyContinuityCorrection returns the table with 0.5 added to each  *)
(* of a, b, c, d exactly when some input cell is 0, and otherwise a table  *)
(* equal to its input; the caller's table is the same after the call.      *)
(***************************************************************************)
PlusHalf(t) ==
  [a |-> Q(2 * t.a.n + 1, 2), b |-> Q(2 * t.b.n + 1, 2),
   c |-> Q(2 * t.c.n + 1, 2), d |-> Q(2 * t.d.n + 1, 2)]

C2_CorrectionIffZeroCell ==
  op = "applyContinuityCorrection" =>
    /\ result = (IF AnyCellZero THEN PlusHalf(given) ELSE given)
    /\ (result = PlusHalf(given)) <=> AnyCellZero
    /\ table = given

C2_Witness ==
  /\ op = "applyContinuityCorrection"
  /\ D = 0
  /\ A > 0 /\ B > 0 /\ C > 0
  /\ result.a = Q(2 * A + 1, 2)
  /\ result.d = Half
  /\ table = given

(***************************************************************************)
(* C3: computeRD never applies the zero-cell correction: its value, its    *)
(* standard error (seen through lower and upper) and its nnt come from the *)
(* uncorrected risks a/(a+b) and c/(c+d), zero cell or not, whereas        *)
(* computeRR and computeOR on a table with a zero cell use the corrected   *)
(* cells.                                                                  *)
(***************************************************************************)
UncorrectedRD == Q(A * Row2 - C * Row1, Row1 * Row2)

UncorrectedSE == MathSqrt(QAdd(Q(A * B, Row1 * Row1 * Row1), Q(C * D, Row2 * Row2 * Row2)))

C3_RiskDifferenceUncorrected ==
  /\ (op = "computeRD" /\ Row1 > 0 /\ Row2 > 0) =>
       LET z == FxQ(getZCritical(args.conf))
       IN  /\ result.value = UncorrectedRD
           /\ result.lower = Rnd(QSub(UncorrectedRD, Rnd(QMul(z, UncorrectedSE))))
           /\ result.upper = Rnd(QAdd(UncorrectedRD, Rnd(QMul(z, UncorrectedSE))))
           /\ result.nnt = (IF A * Row2 = C * Row1 THEN Infinity
                            ELSE QCeil(Q(Row1 * Row2, IAbs(A * Row2 - C * Row1))))
  /\ (op = "computeRD" /\ (Row1 = 0 \/ Row2 = 0)) => IsNaN(result.value)
  /\ (op = "computeRR" /\ AnyCellZero) =>
       result.value = Q((2 * A + 1) * (2 * Row2 + 2), (2 * C + 1) * (2 * Row1 + 2))
  /\ (op = "computeOR" /\ AnyCellZero) =>
       result.value = Q((2 * A + 1) * (2 * D + 1), (2 * B + 1) * (2 * C + 1))

C3_Witness ==
  /\ op = "computeRD"
  /\ A = 0 /\ B = 3 /\ C = 1 /\ D = 2
  /\ result.value = Q(-1, 3)
  /\ result.nnt = Q(3, 1)

(***************************************************************************)
(* C4: on a table with positive row sums computeRD returns                 *)
(* nnt = ceil(|1/RD|) when RD # 0 and nnt = Infinity when RD = 0; with     *)
(* identical risks a/(a+b) = c/(c+d) the value is 0 and nnt is Infinity,   *)
(* which the risk-difference calculator shows as N/A.                      *)
(***************************************************************************)
IsCeilOfRatio(k, num, den) ==
  /\ k.d = 1
  /\ (k.n - 1) * num < den
  /\ den <= k.n * num

NntOk(r) ==
  IF A * Row2 = C * Row1 THEN r.value = Zero /\ r.nnt = Infinity
  ELSE IsCeilOfRatio(r.nnt, IAbs(A * Row2 - C * Row1), Row1 * Row2)

C4_NntIsCeiling ==
  /\ (op = "computeRD" /\ Row1 > 0 /\ Row2 > 0) => NntOk(result)
  /\ (op = "riskDiffCalc" /\ Row1 > 0 /\ Row2 > 0) =>
       /\ NntOk(result.res)
       /\ (A * Row2 = C * Row1) => result.results[3].value = Text("N/A")
       /\ (A * Row2 # C * Row1) => result.results[3].value = toFixed(result.res.nnt, 0)

C4_Witness ==
  /\ op = "computeRD"
  /\ A = 1 /\ B = 2 /\ C = 1 /\ D = 2
  /\ result.value = Zero
  /\ result.nnt = Infinity

(***************************************************************************)
(* C5: on a table with b = 0 or c = 0 every calculator that reports an     *)
(* odds ratio or odds (epiMeasures, oddsRatioCalc, ciEpi) reports it as    *)
(* undefined / not computable, and shows no NaN and no Infinity for it.    *)
(***************************************************************************)
OddsShown ==
  IF op = "epiMeasures" THEN {result.results[2].value, result.interpretation[2]}
  ELSE IF op = "oddsRatioCalc"
    THEN {result.results[1].value, result.results[3].value, result.results[4].value,
          result.interpretation[1]}
  ELSE {result.results[1].value, result.interpretation[1]}

ReportedUndefined ==
  \/ result.results = << >>
  \/ \E v \in OddsShown : v.text \in {"N/A", "undefined", "not computable"}

C5_UndefinedOddsRatioSignalled ==
  (op \in {"epiMeasures", "oddsRatioCalc", "ciEpi"} /\ (B = 0 \/ C = 0)) =>
    /\ ReportedUndefined
    /\ \A v \in OddsShown : v.text \notin {"NaN", "Infinity", "-Infinity", "inf"}

(***************************************************************************)
(* C6: the 2x2 chi-square test returns its 'undefined' result (no result   *)
(* rows, the explanatory message, no statistic and no p-value) whenever a  *)
(* row or column total is 0, and a finite statistic whenever all four      *)
(* totals are > 0.                                                         *)
(***************************************************************************)
AnyMarginalZero == Row1 = 0 \/ Row2 = 0 \/ Col1 = 0 \/ Col2 = 0

C6_ChiSquareUndefinedOnZeroMarginal ==
  op = "chiSquare" =>
    IF AnyMarginalZero
    THEN /\ result.results = << >>
         /\ result.interpretation =
              << Text("Table contains a row or column with zero totals.") >>
         /\ DOMAIN result = {"results", "interpretation"}
    ELSE /\ IsFinite(result.chi2)
         /\ result.chi2.n >= 0
         /\ result.results[1].value.text = "num"
         /\ result.pValue >= 0 /\ result.pValue <= Scale

C6_Witness ==
  /\ op = "chiSquare"
  /\ Row1 > 0 /\ Row2 > 0 /\ Col1 = 0 /\ Col2 > 0
  /\ result.results = << >>

(***************************************************************************)
(* C7 (as claimed): with positive marginals the statistic is               *)
(* n (|ad-bc| - c)^2 / (R1 R2 C1 C2), c = n/2 with the Yates correction    *)
(* and c = 0 without, also on tables where |ad-bc| < n/2.                   *)
(***************************************************************************)
C7_Original_UnclampedYates ==
  (op = "chiSquare" /\ ~AnyMarginalZero) =>
    result.chi2 =
      (IF args.yates
       THEN Q(N * (2 * IAbs(A * D - B * C) - N) * (2 * IAbs(A * D - B * C) - N),
              4 * Row1 * Row2 * Col1 * Col2)
       ELSE Q(N * (A * D - B * C) * (A * D - B * C), Row1 * Row2 * Col1 * Col2))

(***************************************************************************)
(* C7 (amended): with positive marginals the statistic is                  *)
(* n max(0, |ad-bc| - c)^2 / (R1 R2 C1 C2), c = n/2 with the Yates         *)
(* correction and c = 0 without: the corrected numerator is clamped at 0,  *)
(* so the statistic is 0 on tables where |ad-bc| <= n/2.                    *)
(***************************************************************************)
YatesNumerator2 ==
  IF 2 * IAbs(A * D - B * C) > N THEN 2 * IAbs(A * D - B * C) - N ELSE 0

C7_ClampedYates ==
  (op = "chiSquare" /\ ~AnyMarginalZero) =>
    result.chi2 =
      (IF args.yates
       THEN Q(N * YatesNumerator2 * YatesNumerator2, 4 * Row1 * Row2 * Col1 * Col2)
       ELSE Q(N * (A * D - B * C) * (A * D - B * C), Row1 * Row2 * Col1 * Col2))

C7_Witness ==
  /\ op = "chiSquare"
  /\ args.yates
  /\ ~AnyMarginalZero
  /\ A * D # B * C
  /\ 2 * IAbs(A * D - B * C) < N
  /\ result.chi2 = Zero

(***************************************************************************)
(* C8: the degenerate-input sentinels: getTCritical(conf, df) is 0 for     *)
(* every df <= 0, getChiSqCritical(p, df) is 0 for every df <= 0 and       *)
(* getChiSqPValue(chi2, df) is 1 for every chi2 <= 0, whatever the other   *)
(* argument is.                                                            *)
(***************************************************************************)
C8_DegenerateInputSentinels ==
  /\ (op = "getTCritical" /\ args.df <= 0) => result.value = 0
  /\ (op = "getChiSqCritical" /\ args.df <= 0) => result.value = 0
  /\ (op = "getChiSqPValue" /\ args.x <= 0) => result.value = Scale

C8_Witness ==
  /\ op = "getChiSqPValue"
  /\ args.x < 0
  /\ args.df <= 0
  /\ result.value = Scale

(***************************************************************************)
(* C9: for every t and df > 0, in the Normal branch (df > 100) and in the  *)
(* trigonometric branch (df <= 100), getTPValue returns lower + upper = 1  *)
(* and twoSided = 2 min(lower, upper) (to one unit in the last place),     *)
(* with twoSided, lower and upper inside [0, 1].                           *)
(***************************************************************************)
C9_TPValueTailsSumToOne ==
  op = "getTPValue" =>
    /\ result.lower + result.upper = Scale
    /\ IAbs(result.twoSided - 2 * FMin(result.lower, result.upper)) <= 1
    /\ result.twoSided \in 0 .. Scale
    /\ result.lower \in 0 .. Scale
    /\ result.upper \in 0 .. Scale

(***************************************************************************)
(* C10: lower is the lower-tail probability P(T <= t) and upper the        *)
(* upper-tail probability P(T >= t): for t > 0,                            *)
(* upper = twoSided/2 <= 1/2 <= lower, and for t < 0,                      *)
(* lower = twoSided/2 <= 1/2 <= upper, in both branches.                    *)
(***************************************************************************)
C10_TailsOrientedAsNamed ==
  op = "getTPValue" =>
    /\ args.x > 0 =>
         /\ IAbs(2 * result.upper - result.twoSided) <= 1
         /\ 2 * result.upper <= Scale
         /\ Scale <= 2 * result.lower
    /\ args.x < 0 =>
         /\ IAbs(2 * result.lower - result.twoSided) <= 1
         /\ 2 * result.lower <= Scale
         /\ Scale <= 2 * result.upper

(***************************************************************************)
(* C11: round trip: for df in [1, 100] and p in [0.01, 0.99],              *)
(* getChiSqPValue(getChiSqCritical(p, df), df) equals p within 1e-2.       *)
(***************************************************************************)
C11_ChiSqRoundTrip ==
  op = "chiSqRoundTrip" => IAbs(result.value - args.p) <= FromMicro(10000)

(***************************************************************************)
(* C12: for k = 5 events over T = 1000 person-time at 95% confidence the   *)
(* Poisson rate calculator reports the observed rate 0.005 and an exact    *)
(* interval with lower bound 0.00162 and upper bound 0.01167, each within  *)
(* 1e-3.                                                                   *)
(***************************************************************************)
Within(x, y, tol) == IsFinite(x) /\ QLe(QAbs(QSub(x, y)), tol)

C12_PoissonScenarioB ==
  (op = "ciRatePoisson" /\ args.k = 5 /\ args.T = 1000 /\ args.conf = FromInt(95)) =>
    /\ result.rate = Q(5, 1000)
    /\ Within(result.exactLower, Q(162, 100000), Q(1, 1000))
    /\ Within(result.exactUpper, Q(1167, 100000), Q(1, 1000))

(***************************************************************************)
(* C13: for every integer k >= 0, T > 0 and confidence in [80, 99.9] the   *)
(* exact Poisson interval satisfies lower <= k/T <= upper, with lower = 0  *)
(* exactly when k = 0.                                                     *)
(***************************************************************************)
C13_PoissonIntervalOrdered ==
  op = "ciRatePoisson" =>
    /\ QLe(result.exactLower, result.rate)
    /\ QLe(result.rate, result.exactUpper)
    /\ (result.exactLower = Zero) <=> (args.k = 0)

(***************************************************************************)
(* C14: for every sd > 0, integer n >= 2 and confidence in [80, 99.9] the  *)
(* interval of ciVariance satisfies varLower <= sd^2 <= varUpper and       *)
(* sdLower <= sd <= sdUpper, for small and large n alike.                  *)
(***************************************************************************)
C14_VarianceInsideItsInterval ==
  op = "ciVariance" =>
    /\ QLe(result.varLower, result.s2)
    /\ QLe(result.s2, result.varUpper)

(***************************************************************************)
(* C15: Clopper-Pearson boundary policy: for every n >= 1 and confidence   *)
(* level the lower bound is exactly 0 when successes = 0 and the upper     *)
(* bound exactly 1 when successes = n, and getFCritical is not evaluated   *)
(* for that bound.                                                         *)
(***************************************************************************)
C15_ClopperPearsonBoundaries ==
  op = "ciProportion" =>
    /\ args.x = 0 =>
         /\ result.cpLow = Zero
         /\ result.fValL = NotEvaluated
         /\ result.results[3].value.l = toFixed(Zero, args.precision)
    /\ args.x = args.n =>
         /\ result.cpHigh = One
         /\ result.fValU = NotEvaluated
         /\ result.results[3].value.h = toFixed(One, args.precision)

C15_Witness ==
  /\ op = "ciProportion"
  /\ args.x = args.n
  /\ args.n > 1
  /\ result.cpHigh = One
  /\ result.fValU = NotEvaluated
  /\ result.fValL # NotEvaluated
  /\ QLt(Zero, result.cpLow)

(***************************************************************************)
(* C16: for every 0 <= x <= n, n >= 1 and confidence in [80, 99.9] the     *)
(* Wilson interval and the Clopper-Pearson interval both satisfy           *)
(* 0 <= lower <= x/n <= upper <= 1.  (The Wilson bounds are allowed the    *)
(* rounding of their square root: Grain.)                                  *)
(***************************************************************************)
Grain == Q(5, Scale)

WilsonOrdered ==
  /\ QLe(QNeg(Grain), result.wilsonLow)
  /\ QLe(result.wilsonLow, QAdd(result.p, Grain))
  /\ QLe(QSub(result.p, Grain), result.wilsonHigh)
  /\ QLe(result.wilsonHigh, QAdd(One, Grain))

ClopperPearsonOrdered ==
  /\ QLe(Zero, result.cpLow)
  /\ QLe(result.cpLow, result.p)
  /\ QLe(result.p, result.cpHigh)
  /\ QLe(result.cpHigh, One)

C16_ProportionIntervalsOrdered ==
  op = "ciProportion" => WilsonOrdered /\ ClopperPearsonOrdered

\* The operations that solve for a sample size.
SolverOps ==
  {"sampleSizeMeans", "sampleSizeMeanEstimate", "sampleSizeProp", "sampleSizeTwoProps",
   "sampleSizePaired", "sampleSizeNonInferiority", "sampleSizeCluster"}

\* n is the ceiling of the finite real f: an integer with f <= n < f + 1
IsCeilingOf(n, f) ==
  /\ IsFinite(n)
  /\ n.d = 1
  /\ QLe(f, n)
  /\ QLt(n, QAdd(f, One))

(***************************************************************************)
(* C17: every sample-size solver (two means, mean estimate, single         *)
(* proportion, two proportions, paired, non-inferiority, cluster) reports  *)
(* the ceiling of the real value f of its formula whenever f is finite,    *)
(* never a floor or a rounding, so the reported n is at least f; the       *)
(* second group of the two-group solvers is the ceiling of n1 * ratio, so  *)
(* at least n1 * ratio.                                                    *)
(***************************************************************************)
C17_SolversRoundUp ==
  /\ (op \in SolverOps /\ IsFinite(result.f)) => IsCeilingOf(result.n, result.f)
  /\ (op \in {"sampleSizeMeans", "sampleSizeTwoProps"} /\ IsFinite(result.f)) =>
       /\ IsCeilingOf(result.n2, QMul(result.n, args.ratio))
       /\ QLe(QMul(result.n, args.ratio), result.n2)

\* a paired solve whose formula value lies at least one half below the
\* reported n, so that rounding to nearest and rounding up differ
C17_Witness ==
  /\ op = "sampleSizePaired"
  /\ IsFinite(result.f)
  /\ QLe(result.f, QSub(result.n, Q(1, 2)))

(***************************************************************************)
(* C18: scenario C.  The two-proportion solver with p1 = 0.3, p2 = 0.5,    *)
(* power = 0.8, alpha = 0.05 and ratio = 1 returns n1 = n2 = 93.           *)
(***************************************************************************)
C18_TwoPropsScenarioC ==
  (/\ op = "sampleSizeTwoProps"
   /\ args.p1 = Q(3, 10)
   /\ args.p2 = Q(1, 2)
   /\ args.power = Q(8, 10)
   /\ args.alpha = Q(5, 100)
   /\ args.ratio = One)
  => (result.n = Q(93, 1) /\ result.n2 = Q(93, 1))

\* a result the caller can tell from a sample size: undefined (NaN) or negative
Rejected(n) == IsNaN(n) \/ n.n < 0

\* pTest - pStandard - margin is zero, so its square, the denominator, is not positive
NonPositiveDenominator ==
  LET effect == QSub(QSub(args.pTest, args.pStandard), args.margin)
  IN  ~QLt(Zero, QMul(effect, effect))

(***************************************************************************)
(* C19: whenever pTest - pStandard - margin yields a non-positive          *)
(* denominator (in particular pTest - pStandard = margin), the             *)
(* non-inferiority solver rejects: the per-group n of the main result and  *)
(* of every point of the power spectrum is undefined or negative, not a    *)
(* sample size.                                                            *)
(***************************************************************************)
C19_NonInferiorityRejects ==
  (op = "sampleSizeNonInferiority" /\ NonPositiveDenominator)
  => /\ Rejected(result.n)
     /\ \A i \in DOMAIN result.powerSpectrum : Rejected(result.powerSpectrum[i].n)

\* DEFF = 1 + (m - 1) * ICC, as the cluster solver reports it
DesignEffectHolds ==
  result.designEffect = QAdd(One, QMul(QSub(args.m, One), args.icc))

(***************************************************************************)
(* C20 as stated: the cluster solver reports DEFF = 1 + (m - 1) * ICC and  *)
(* the cluster count ceil(nIndividual * DEFF / m), rounded up once, for    *)
(* every nIndividual >= 1, every cluster size m >= 2 (integer or not) and  *)
(* every ICC in [0, 1].                                                    *)
(***************************************************************************)
C20_Original_RoundedUpOnce ==
  op = "sampleSizeCluster"
  => /\ DesignEffectHolds
     /\ IsCeilingOf(result.numClusters, QDiv(QMul(args.nIndividual, result.designEffect), args.m))

(***************************************************************************)
(* C20 amended: the cluster solver reports DEFF = 1 + (m - 1) * ICC, the   *)
(* adjusted N = ceil(nIndividual * DEFF) and the cluster count             *)
(* ceil(adjusted N / m): two roundings up.  The count is never below       *)
(* nIndividual * DEFF / m, equals ceil(nIndividual * DEFF / m) whenever m  *)
(* is an integer, and exceeds it by at most one cluster otherwise.         *)
(***************************************************************************)
C20_RoundedUpTwice ==
  op = "sampleSizeCluster"
  => LET once == QCeil(QDiv(QMul(args.nIndividual, result.designEffect), args.m))
     IN  /\ DesignEffectHolds
         /\ IsCeilingOf(result.n, QMul(args.nIndividual, result.designEffect))
         /\ IsCeilingOf(result.numClusters, QDiv(result.n, args.m))
         /\ QLe(once, result.numClusters)
         /\ QLe(result.numClusters, QAdd(once, One))
         /\ args.m.d = 1 => result.numClusters = once

\* a non-integer cluster size for which the second rounding adds a cluster
C20_Witness ==
  /\ op = "sampleSizeCluster"
  /\ args.m.d # 1
  /\ QLt(Zero, args.icc)
  /\ QLt(QCeil(QDiv(QMul(args.nIndividual, result.designEffect), args.m)), result.numClusters)

\* The operations that report a power.
PowerOps == {"powerMeans", "powerProportions", "powerPaired", "powerNonInf"}

(***************************************************************************)
(* C21: for every schema-valid input each power-given-n calculator         *)
(* (powerMeans, powerProportions, powerPaired, powerNonInf) reports a      *)
(* power that is a number in [0, 1], never NaN, negative or above 1,       *)
(* including equal means, p1 = p2 and proportions equal to 0 or 1.         *)
(***************************************************************************)
C21_PowerInUnitInterval ==
  op \in PowerOps
  => /\ IsFinite(result.power)
     /\ QLe(Zero, result.power)
     /\ QLe(result.power, One)

\* the three Cornish-Fisher correction terms of the t quantile at z and df
CornishFisher(z, df) ==
  LET z3 == FMul(FMul(z, z), z)
      z5 == FMul(FMul(z, z), z3)
      z7 == FMul(FMul(z, z), z5)
  IN  FDivInt(z3 + z, 4 * df)
      + FDivInt(5 * z5 + 16 * z3 + 3 * z, 96 * df * df)
      + FDivInt(FDivInt(3 * z7 + 19 * z5 + 17 * z3 - 15 * z, 384 * df), df * df)

(***************************************************************************)
(* C22: for every confidence level and every df > 500, getTCritical        *)
(* returns exactly getZCritical of that level (so at df = 1000 the two     *)
(* agree within 1e-2), while for 0 < df <= 500, df = 500 included, it      *)
(* returns the Normal quantile plus the three Cornish-Fisher terms, which  *)
(* is strictly above the Normal quantile.                                  *)
(***************************************************************************)
C22_TCriticalDegeneratesAbove500 ==
  op = "getTCritical" =>
    LET z == getZCritical(args.conf)
    IN  /\ args.df > 500 => result.value = z
        /\ args.df = 1000 => IAbs(result.value - z) <= Scale \div 100
        /\ (args.df > 0 /\ args.df <= 500) =>
             /\ result.value = z + CornishFisher(z, args.df)
             /\ result.value > z

\* the last df that still gets the correction
C22_Witness ==
  /\ op = "getTCritical"
  /\ args.df = 500
  /\ result.value > getZCritical(args.conf)

(***************************************************************************)
(* C23: for every table of non-negative counts with positive row sums,     *)
(* exchanging the exposure rows (a, b) <-> (c, d) turns the risk ratio     *)
(* into its reciprocal, and likewise the odds ratio, also on the tables    *)
(* where the zero-cell correction is applied.                              *)
(***************************************************************************)
C23_RowSwapGivesReciprocal ==
  (op \in {"computeRRSwapped", "computeORSwapped"} /\ Row1 > 0 /\ Row2 > 0)
  => /\ IsFinite(result.direct.value)
     /\ QLt(Zero, result.direct.value)
     /\ result.swapped.value = QRecip(result.direct.value)

\* a corrected table (a = 0) whose ratio is not 1
C23_Witness ==
  /\ op = "computeRRSwapped"
  /\ A = 0
  /\ Row1 > 0
  /\ Row2 > 0
  /\ QLt(result.direct.value, One)
  /\ QLt(One, result.swapped.value)

\* The calls that take the caller's 2x2 table.
TableOps ==
  {"applyContinuityCorrection", "computeRR", "computeOR", "computeRD", "epiMeasures",
   "riskRatioCalc", "oddsRatioCalc", "riskDiffCalc", "chiSquare", "ciEpi",
   "computeRRSwapped", "computeORSwapped"}

\* what a call returns, as a function of the call's own arguments alone
ResultOfArguments ==
  CASE op = "applyContinuityCorrection" -> applyContinuityCorrection(given)
    [] op = "computeRR" -> computeRR(given, args.conf)
    [] op = "computeOR" -> computeOR(given, args.conf)
    [] op = "computeRD" -> computeRD(given, args.conf)
    [] op = "epiMeasures" -> epiMeasuresCompute(given)
    [] op = "chiSquare" -> chiSquareCompute(given, args.yates)
    [] op = "ciEpi" -> ciEpiCompute(given, args.conf)
    [] op = "getTCritical" -> [value |-> getTCritical(args.conf, args.df)]
    [] op = "getTPValue" -> getTPValue(args.x, args.df)
    [] op = "getChiSqPValue" -> [value |-> getChiSqPValue(args.x, args.df)]
    [] op = "getChiSqCritical" -> [value |-> getChiSqCritical(args.x, args.df)]
    [] op = "ciRatePoisson" -> ciRatePoissonCompute(args.k, args.T, args.conf, args.precision)
    [] op = "sampleSizeCluster" -> sampleSizeClusterCompute(args.nIndividual, args.m, args.icc)
    [] op = "powerPaired" -> powerPairedCompute(args.n, args.diff, args.sdDiff, args.alpha)
    [] OTHER -> result

IterationsOf(df) ==
  IF df > 100 \/ df = 1 THEN 0
  ELSE IF df % 2 = 1 THEN (df - 3) \div 2
  ELSE (df - 2) \div 2

(***************************************************************************)
(* C25: getTPValue terminates for every (t, df) without iterating to       *)
(* convergence: the number of iterations of its loop is a function of df   *)
(* alone, (df - 3)/2 for odd df >= 3, (df - 2)/2 for even df >= 2, none    *)
(* for df = 1 or df > 100, hence at most 49, whatever t is.                *)
(***************************************************************************)
C25_TPValueIterationsBounded ==
  op = "getTPValue" =>
    /\ result.iters = IterationsOf(args.df)
    /\ result.iters <= 49

\* the longest loop, at a t for which the terms vanish
C25_Witness ==
  /\ op = "getTPValue"
  /\ args.df = 100
  /\ args.x = 0
  /\ result.iters = 49

(***************************************************************************)
(* C26: the bounds of the standardized-ratio calculator are the Byar       *)
(* bounds of the Poisson rate interval: for every observed >= 0 and        *)
(* expected > 0 its lower and upper equal (to 1e-2) the Byar bounds        *)
(* ciRatePoisson computes for k = observed, T = expected at 95%.           *)
(***************************************************************************)
C26_StandardizedRatioUsesPoissonByar ==
  op = "standardizedRates" =>
    LET poisson == ciRatePoissonCompute(args.observed, args.expected, FromInt(95), 4)
    IN  /\ Within(result.lower, poisson.byarLower, Q(1, 100))
        /\ Within(result.upper, poisson.byarUpper, Q(1, 100))

\* a test statistic far in the tail
FarT == FromInt(1000)

(***************************************************************************)
(* C27: for every integer df in 1..100, odd or even, the two-sided p-value *)
(* of getTPValue is 1 at t = 0, never larger at a larger |t| (to five      *)
(* units of the last place of the arithmetic), and near 0 (below 0.01)     *)
(* far in the tail.                                                        *)
(***************************************************************************)
C27_TPValueDecreasesInAbsT ==
  (op = "getTPValue" /\ args.df >= 1 /\ args.df <= 100) =>
    /\ args.x = 0 => result.twoSided = Scale
    /\ \A t2 \in Ts :
         IAbs(t2) >= IAbs(args.x) => getTPValue(t2, args.df).twoSided <= result.twoSided + 5
    /\ getTPValue(FarT, args.df).twoSided <= Scale \div 100

(***************************************************************************)
(* C28: the 2x2 CI toolkit (ciEpi) follows the zero-cell policy of         *)
(* computeOR and computeRR: on every table whose four cells are all        *)
(* positive, at every confidence level, it adds no 0.5 to any cell, so its *)
(* OR and RR confidence bounds equal (to 1e-3) those of computeOR and      *)
(* computeRR for the same table and confidence.                            *)
(***************************************************************************)
C28_CiEpiFollowsZeroCellPolicy ==
  (op = "ciEpi" /\ AllCellsPositive) =>
    LET or == computeOR(given, args.conf)
        rr == computeRR(given, args.conf)
    IN  /\ Within(result.orLower, or.lower, Q(1, 1000))
        /\ Within(result.orUpper, or.upper, Q(1, 1000))
        /\ Within(result.rrLower, rr.lower, Q(1, 1000))
        /\ Within(result.rrUpper, rr.upper, Q(1, 1000))

(***************************************************************************)
(* C29: for fixed p and d the sample size of sampleSizeProp does not       *)
(* decrease when the confidence level rises, over the whole schema range   *)
(* [80, 99.9] and not only at 90, 95 and 99.                               *)
(***************************************************************************)
C29_SampleSizePropMonotoneInConf ==
  op = "sampleSizeProp" =>
    \A conf2 \in Confs :
      conf2 >= args.conf => QLe(result.n, sampleSizePropCompute(args.p, args.d, conf2).n)

(***************************************************************************)
(* C30: the non-inferiority power calculator inverts the non-inferiority   *)
(* sample-size solver: for every valid (pStandard, pTest, margin, alpha,   *)
(* power), with pTest above, equal to or below pStandard, powerNonInf at   *)
(* the nPerGroup returned by sampleSizeNonInferiority yields at least the  *)
(* requested power (to 0.01, the accuracy of the Normal approximations).   *)
(***************************************************************************)
C30_PowerAtSolvedNReachesTarget ==
  op = "nonInfRoundTrip" =>
    /\ IsFinite(result.power)
    /\ QLe(QSub(args.power, Q(1, 100)), result.power)

=============================================================================
